---- MODULE Spec2Model ----
(***************************************************************************)
(* Model of burp_exporter: the single-connection daemon of daemon.py and   *)
(* cli.py (its handshake, its event loop, its frame decoder and its        *)
(* reconciler), the Client of client.py, and the frame codec as a pair of  *)
(* pure functions.  Text is modelled as sequences of one-character         *)
(* strings, so that `in`, startswith, slicing and int(.., 16) are computed *)
(* on the characters as Python computes them.                              *)
(***************************************************************************)
EXTENDS Integers, Sequences, FiniteSets, TLC

\* ------------------------------------------------------------------ bounds

\* The clock stops advancing here (seconds since process start).
MaxTime == 75

\* ------------------------------------------------------- program constants

\* daemon.py:187  datetime.timedelta(minutes=1), in seconds
ConnectCoolDown == 60
\* daemon.py:206  time.sleep(60)
SleepSeconds == 60
\* daemon.py:213  datetime.timedelta(minutes=1), in seconds
QueryInterval == 60
\* settings.py:16  timeout_seconds: int = 10
timeout_seconds == 10
\* daemon.py:59, daemon.py:61  datetime.datetime.min: earlier than every
\* instant the comparisons of run() subtract from the clock.
DatetimeMin == 0 - (ConnectCoolDown + QueryInterval + 1)

\* ------------------------------------------------------------------- text

\* The NUL character written by write_command ('\0').
NUL == "\\0"

HexDigits ==
    <<"0", "1", "2", "3", "4", "5", "6", "7", "8", "9", "A", "B", "C", "D", "E", "F">>

\* Python's `sub in s` for str.
Contains(s, sub) ==
    \E i \in 0..(Len(s) - Len(sub)) : SubSeq(s, i + 1, i + Len(sub)) = sub

\* Python's s.startswith(p).
StartsWith(s, p) ==
    Len(s) >= Len(p) /\ SubSeq(s, 1, Len(p)) = p

\* expected reply substrings of connect()
T_whoareyou ==
    <<"w", "h", "o", "a", "r", "e", "y", "o", "u">>
T_okpassword ==
    <<"o", "k", "p", "a", "s", "s", "w", "o", "r", "d">>
T_ok ==
    <<"o", "k">>
T_nocsr_ok ==
    <<"n", "o", "c", "s", "r", " ", "o", "k">>
T_extra_comms_begin_ok ==
    <<"e", "x", "t", "r", "a", "_", "c", "o", "m", "m", "s", "_", "b", "e", "g", "i", "n", " ",
      "o", "k">>
T_extra_comms_end_ok ==
    <<"e", "x", "t", "r", "a", "_", "c", "o", "m", "m", "s", "_", "e", "n", "d", " ", "o", "k">>
\* capability tokens of the extra_comms_begin reply
T_counters_json ==
    <<":", "c", "o", "u", "n", "t", "e", "r", "s", "_", "j", "s", "o", "n", ":">>
T_uname ==
    <<":", "u", "n", "a", "m", "e", ":">>
T_msg ==
    <<":", "m", "s", "g", ":">>

\* What the server may answer during the handshake, as read() returns it:
\* the raw bytes of a frame (type character, 4 hex digits, text).
R_whoareyou == <<"c", "0", "0", "0", "9">> \o T_whoareyou
R_okpassword == <<"c", "0", "0", "0", "A">> \o T_okpassword
R_ok == <<"c", "0", "0", "0", "2">> \o T_ok
R_warning == <<"w", "0", "0", "0", "7", "c", "a", "r", "e", "f", "u", "l">>
R_nocsr_ok == <<"c", "0", "0", "0", "8">> \o T_nocsr_ok
R_ecb_ok == <<"c", "0", "0", "1", "4">> \o T_extra_comms_begin_ok
R_ecb_uname == <<"c", "0", "0", "1", "B">> \o T_extra_comms_begin_ok \o T_uname
R_ecb_all ==
    <<"c", "0", "0", "2", "D">> \o T_extra_comms_begin_ok
        \o T_counters_json \o <<"u", "n", "a", "m", "e", ":", "m", "s", "g", ":">>
R_ece_ok == <<"c", "0", "0", "1", "2">> \o T_extra_comms_end_ok
R_error == <<"c", "0", "0", "0", "5", "e", "r", "r", "o", "r">>

\* The empty string: what read() returns when its select timed out.
NoData == <<>>

HandshakeReplies ==
    {NoData, R_whoareyou, R_okpassword, R_ok, R_warning, R_nocsr_ok, R_ecb_ok,
     R_ecb_uname, R_ecb_all, R_ece_ok, R_error}

\* ------------------------------------------------- JSON and the schema

\* JSON texts the model's server sends as frame payloads, and the frames
\* that carry them (the server's frames declare the payload's length and
\* carry no terminator: handle_data requires len(data) == mlen + 5).
\* {"clients":[{"name":"asdf","run_status":"idle","protocol":1,"backups":[]},{"name":"burp","run_status":"idle","protocol":1,"backups":[{"number":4,"timestamp":7,"flags":["current"]}]}]}
J_2c ==
    <<"{", "\"", "c", "l", "i", "e", "n", "t", "s", "\"", ":", "[", "{", "\"", "n", "a", "m",
      "e", "\"", ":", "\"", "a", "s", "d", "f", "\"", ",", "\"", "r", "u", "n", "_", "s", "t",
      "a", "t", "u", "s", "\"", ":", "\"", "i", "d", "l", "e", "\"", ",", "\"", "p", "r", "o",
      "t", "o", "c", "o", "l", "\"", ":", "1", ",", "\"", "b", "a", "c", "k", "u", "p", "s",
      "\"", ":", "[", "]", "}", ",", "{", "\"", "n", "a", "m", "e", "\"", ":", "\"", "b", "u",
      "r", "p", "\"", ",", "\"", "r", "u", "n", "_", "s", "t", "a", "t", "u", "s", "\"", ":",
      "\"", "i", "d", "l", "e", "\"", ",", "\"", "p", "r", "o", "t", "o", "c", "o", "l", "\"",
      ":", "1", ",", "\"", "b", "a", "c", "k", "u", "p", "s", "\"", ":", "[", "{", "\"", "n",
      "u", "m", "b", "e", "r", "\"", ":", "4", ",", "\"", "t", "i", "m", "e", "s", "t", "a",
      "m", "p", "\"", ":", "7", ",", "\"", "f", "l", "a", "g", "s", "\"", ":", "[", "\"", "c",
      "u", "r", "r", "e", "n", "t", "\"", "]", "}", "]", "}", "]", "}">>
F_2c == <<"c", "0", "0", "B", "7">> \o J_2c

\* {"clients":[{"name":"asdf","run_status":"idle","protocol":1,"backups":[]}]}
J_1c ==
    <<"{", "\"", "c", "l", "i", "e", "n", "t", "s", "\"", ":", "[", "{", "\"", "n", "a", "m",
      "e", "\"", ":", "\"", "a", "s", "d", "f", "\"", ",", "\"", "r", "u", "n", "_", "s", "t",
      "a", "t", "u", "s", "\"", ":", "\"", "i", "d", "l", "e", "\"", ",", "\"", "p", "r", "o",
      "t", "o", "c", "o", "l", "\"", ":", "1", ",", "\"", "b", "a", "c", "k", "u", "p", "s",
      "\"", ":", "[", "]", "}", "]", "}">>
F_1c == <<"c", "0", "0", "4", "B">> \o J_1c

\* {"clients":[{"name":"burp","run_status":"idle","backups":[]},{"name":"asdf","run_status":"idle","protocol":1,"backups":[]}]}
J_bad1 ==
    <<"{", "\"", "c", "l", "i", "e", "n", "t", "s", "\"", ":", "[", "{", "\"", "n", "a", "m",
      "e", "\"", ":", "\"", "b", "u", "r", "p", "\"", ",", "\"", "r", "u", "n", "_", "s", "t",
      "a", "t", "u", "s", "\"", ":", "\"", "i", "d", "l", "e", "\"", ",", "\"", "b", "a", "c",
      "k", "u", "p", "s", "\"", ":", "[", "]", "}", ",", "{", "\"", "n", "a", "m", "e", "\"",
      ":", "\"", "a", "s", "d", "f", "\"", ",", "\"", "r", "u", "n", "_", "s", "t", "a", "t",
      "u", "s", "\"", ":", "\"", "i", "d", "l", "e", "\"", ",", "\"", "p", "r", "o", "t", "o",
      "c", "o", "l", "\"", ":", "1", ",", "\"", "b", "a", "c", "k", "u", "p", "s", "\"", ":",
      "[", "]", "}", "]", "}">>
F_bad1 == <<"c", "0", "0", "7", "C">> \o J_bad1

\* {"x":1}
J_other ==
    <<"{", "\"", "x", "\"", ":", "1", "}">>
F_other == <<"c", "0", "0", "0", "7">> \o J_other


\* Frames that are not snapshots.
F_sentinel == <<"c", "0", "0", "0", "1", "\n">>
F_warning == <<"w", "0", "0", "0", "2", "h", "i">>
F_badtype == <<"x", "0", "0", "0", "2", "h", "i">>
F_badhex == <<"c", "0", "0", "G", "2", "h", "i">>
F_short == <<"c", "0", "0">>
F_lenmismatch == <<"c", "0", "0", "0", "5", "h", "i">>
F_badjson == <<"c", "0", "0", "0", "2", "{", "x">>

\* The decoded objects of the JSON texts (what json.loads returns): a
\* record per JSON object, a sequence per array.
O_asdf == [name |-> "asdf", run_status |-> "idle", protocol |-> 1, backups |-> <<>>]
O_burp ==
    [name |-> "burp", run_status |-> "idle", protocol |-> 1,
     backups |-> <<[number |-> 4, timestamp |-> 7, flags |-> <<"current">>]>>]
O_burp_noproto == [name |-> "burp", run_status |-> "idle", backups |-> <<>>]
O_2c == [clients |-> <<O_asdf, O_burp>>]
O_1c == [clients |-> <<O_asdf>>]
O_bad1 == [clients |-> <<O_burp_noproto, O_asdf>>]
O_other == [x |-> 1]

\* json.loads on the texts of the model: the decoded object, or the marker
\* of json.JSONDecodeError for a text that is no JSON document.
JSONDecodeError == [error |-> "JSONDecodeError"]
json_loads(text) ==
    CASE text = J_2c -> O_2c
      [] text = J_1c -> O_1c
      [] text = J_bad1 -> O_bad1
      [] text = J_other -> O_other
      [] OTHER -> JSONDecodeError

\* types.py: the fields ClientInfo and BackupInfo require (labels and logs
\* are Optional).
RequiredClientFields == {"name", "run_status", "protocol", "backups"}
RequiredBackupFields == {"number", "timestamp", "flags"}

\* ClientInfo(**client) raises ValidationError unless every required field
\* of the client and of each of its backups is there.
ValidClient(client) ==
    /\ RequiredClientFields \subseteq DOMAIN client
    /\ \A i \in DOMAIN client.backups :
           RequiredBackupFields \subseteq DOMAIN client.backups[i]

\* Python's `x in list`.
InList(x, list) == \E i \in DOMAIN list : list[i] = x

\* ------------------------------------------- Daemon.parse_message (pure)

\* daemon.py:46  the states of the CLIENT_RUN_STATUS Enum; Enum.state()
\* raises ValueError for any other value.
RunStates == {"running", "idle"}

\* The for loop over info.backups: the gauges after it.  st is the
\* reconciler's working state, name the client's name.
RECURSIVE DaemonBackups(_, _, _, _, _)
DaemonBackups(st, name, backups, i, has_working) ==
    IF i > Len(backups)
    THEN [st EXCEPT !.in_progress = (name :> has_working) @@ @]
    ELSE LET b == backups[i] IN
         IF InList("current", b.flags)
         THEN DaemonBackups([st EXCEPT !.num = (name :> b.number) @@ @,
                                       !.ts = (name :> b.timestamp) @@ @],
                            name, backups, i + 1, has_working)
         ELSE IF InList("working", b.flags)
         THEN DaemonBackups(st, name, backups, i + 1, TRUE)
         ELSE DaemonBackups(st, name, backups, i + 1, has_working)

\* One pass of `for client in message['clients']`.
DaemonEntry(st, client) ==
    IF ~ValidClient(client)
    THEN [st EXCEPT !.parse_errors = @ + 1]
    ELSE LET st1 == [st EXCEPT !.seen = @ \cup {client.name},
                               !.clients = @ \cup {client.name}]
             st2 == IF client.backups # <<>>
                    THEN DaemonBackups(st1, client.name, client.backups, 1, FALSE)
                    ELSE st1
         IN  IF client.run_status \in RunStates
             THEN [st2 EXCEPT !.run_status = (client.name :> client.run_status) @@ @]
             ELSE [st2 EXCEPT !.exc = "ValueError"]

RECURSIVE DaemonEntries(_, _, _)
DaemonEntries(st, entries, i) ==
    IF i > Len(entries) \/ st.exc # "none"
    THEN st
    ELSE DaemonEntries(DaemonEntry(st, entries[i]), entries, i + 1)

\* f without the key k.
Without(f, k) == [x \in (DOMAIN f) \ {k} |-> f[x]]

\* One pass of `for name in removed_clients`: the removes stop at the first
\* KeyError (caught); CLIENT_BACKUP_LOGS has two labels, so its remove(name)
\* raises ValueError (label count), which is not caught.
DaemonRemove(st, name) ==
    IF name \notin DOMAIN st.num
    THEN [st EXCEPT !.clients = @ \ {name}]
    ELSE IF name \notin DOMAIN st.ts
    THEN [st EXCEPT !.num = Without(@, name), !.clients = @ \ {name}]
    ELSE [st EXCEPT !.num = Without(@, name), !.ts = Without(@, name),
                    !.exc = "ValueError"]

RECURSIVE DaemonRemoveAll(_, _)
DaemonRemoveAll(st, names) ==
    IF names = {} \/ st.exc # "none"
    THEN st
    ELSE LET name == CHOOSE n \in names : TRUE
         IN  DaemonRemoveAll(DaemonRemove(st, name), names \ {name})

\* Daemon.parse_message(message) on the reconciler state st: the state
\* after it, with exc naming the exception it raised ("none": it returned).
DaemonParseMessage(st, message) ==
    IF "clients" \in DOMAIN message
    THEN LET st1 == DaemonEntries([st EXCEPT !.seen = {}], message.clients, 1)
         IN  DaemonRemoveAll(st1, st1.clients \ st1.seen)
    ELSE [st EXCEPT !.exc = "Exception: Unknown data"]

\* ---------------------------------------------- Daemon.handle_data (pure)

LowerHexDigits ==
    <<"0", "1", "2", "3", "4", "5", "6", "7", "8", "9", "a", "b", "c", "d", "e", "f">>

IsHexDigit(ch) == InList(ch, HexDigits) \/ InList(ch, LowerHexDigits)

HexDigitValue(ch) ==
    IF InList(ch, HexDigits)
    THEN (CHOOSE i \in 1..16 : HexDigits[i] = ch) - 1
    ELSE (CHOOSE i \in 1..16 : LowerHexDigits[i] = ch) - 1

\* What stands for the ValueError of int(s, 16): a number no text of four
\* characters denotes.
ValueError16 == 0 - (16 * 16 * 16 * 16)

\* The characters str.strip() and int() drop at both ends.
Whitespace == {" ", "\n", "\t", "\r"}

RECURSIVE LStrip(_)
LStrip(s) == IF s # <<>> /\ Head(s) \in Whitespace THEN LStrip(Tail(s)) ELSE s

RECURSIVE RStrip(_)
RStrip(s) ==
    IF s # <<>> /\ s[Len(s)] \in Whitespace THEN RStrip(SubSeq(s, 1, Len(s) - 1)) ELSE s

\* The digits of int(s, 16) from position i on: hexadecimal digits of
\* either case, single underscores between digits (and, after_digit being
\* TRUE at the start, one right after a 0x prefix).
RECURSIVE HexValue(_, _, _, _)
HexValue(s, i, acc, after_digit) ==
    IF i > Len(s) THEN (IF after_digit THEN acc ELSE ValueError16)
    ELSE IF s[i] = "_"
    THEN (IF after_digit /\ i < Len(s) THEN HexValue(s, i + 1, acc, FALSE) ELSE ValueError16)
    ELSE IF ~IsHexDigit(s[i]) THEN ValueError16
    ELSE HexValue(s, i + 1, acc * 16 + HexDigitValue(s[i]), TRUE)

\* int() without the sign: an optional 0x or 0X prefix, then the digits.
UnsignedHex(s) ==
    IF Len(s) >= 2 /\ s[1] = "0" /\ s[2] \in {"x", "X"}
    THEN (IF Len(s) = 2 THEN ValueError16 ELSE HexValue(SubSeq(s, 3, Len(s)), 1, 0, TRUE))
    ELSE HexValue(s, 1, 0, FALSE)

\* int(s, 16): blanks at both ends dropped, an optional sign, an optional
\* prefix, the digits; ValueError16 stands for ValueError.
int16(s) ==
    LET t == RStrip(LStrip(s))
        body == IF t # <<>> /\ t[1] \in {"+", "-"} THEN Tail(t) ELSE t
        v == UnsignedHex(body)
    IN  IF v = ValueError16 THEN ValueError16
        ELSE IF t # <<>> /\ t[1] = "-" THEN 0 - v
        ELSE v

\* The `while True` loop of Daemon.handle_data on the text data, with the
\* reconciler state st threaded through parse_message.
RECURSIVE DaemonHandleLoop(_, _)
DaemonHandleLoop(st, data) ==
    LET mtype == data[1]
        dlen == Len(data)
        mlen == int16(SubSeq(data, 2, 5))
        mdata == SubSeq(data, 6, mlen + 5)
        json_data == json_loads(mdata)
        st1 == IF mtype = "c"
               THEN IF "error" \in DOMAIN json_data
                    THEN [st EXCEPT !.exc = "JSONDecodeError"]
                    ELSE DaemonParseMessage(st, json_data)
               ELSE IF mtype = "w"
               THEN st
               ELSE [st EXCEPT !.exc = "Exception: Unexpected message type"]
        \* data[mlen + 5:-1]
        rest == SubSeq(data, mlen + 6, dlen - 1)
    IN  IF dlen = 6 /\ data = F_sentinel THEN st
        ELSE IF dlen < 5 THEN [st EXCEPT !.exc = "Exception: Message too short"]
        ELSE IF mlen = ValueError16 THEN [st EXCEPT !.exc = "Exception: Invalid length"]
        ELSE IF dlen # mlen + 5 THEN [st EXCEPT !.exc = "Exception: Expected payload length"]
        ELSE IF st1.exc # "none" THEN st1
        ELSE IF Len(rest) < 1 THEN st1
        ELSE DaemonHandleLoop(st1, rest)

\* Daemon.handle_data(data), data not empty.
DaemonHandleData(st, data) ==
    IF data[1] \notin {"c", "w"}
    THEN [st EXCEPT !.exc = "IOError: Unexpected code"]
    ELSE DaemonHandleLoop(st, data)

\* ------------------------------------------------------ the Daemon's state

VARIABLES
    \* position of the process: "cli" (cli() about to call d.setup_socket()),
    \* "connect" (inside Daemon.connect(), before handshake step `step`),
    \* "loop" (at `while not self._stop` of run()), "done" (run() returned),
    \* "crashed" (an exception left cli(): the process ended with a traceback)
    pc,
    \* inside connect(): the handshake step about to run (1..8), else 0
    step,
    \* who called connect(): "cli" (cli.py:78) or "run" (daemon.py:199)
    caller,
    \* the clock, in seconds since process start (datetime.utcnow())
    now,
    \* Daemon fields
    d_stop, d_socket, d_connected, d_ts_last_connect_attempt, d_ts_last_query, d_clients,
    \* module-level metrics of daemon.py (labelled ones: name -> value)
    SERVER_UP, PARSE_ERRORS, CLIENT_COUNT, CLIENT_BACKUP_NUM, CLIENT_BACKUP_TIMESTAMP,
    CLIENT_BACKUP_HAS_IN_PROGRESS, CLIENT_RUN_STATUS,
    \* the local variable `data` of connect(): the last reply it read
    data,
    \* history: the payloads written to the socket in the current (or, once
    \* it ended, the last) connection attempt, in order
    sent,
    \* history: the open() attempts so far, [t: when, exc: what open() raised]
    attempts,
    \* the exception that left cli() and ended the process ("none": none did)
    raised,
    \* history: the snapshot requests sent on the current connection since
    \* the last completely received message
    awaiting

daemonVars ==
    <<pc, step, caller, now, d_stop, d_socket, d_connected, d_ts_last_connect_attempt,
      d_ts_last_query, d_clients, SERVER_UP, PARSE_ERRORS, CLIENT_COUNT, CLIENT_BACKUP_NUM,
      CLIENT_BACKUP_TIMESTAMP, CLIENT_BACKUP_HAS_IN_PROGRESS, CLIENT_RUN_STATUS, data, sent,
      attempts, raised, awaiting>>

metricVars ==
    <<d_clients, PARSE_ERRORS, CLIENT_BACKUP_NUM, CLIENT_BACKUP_TIMESTAMP,
      CLIENT_BACKUP_HAS_IN_PROGRESS, CLIENT_RUN_STATUS>>

\* ------------------------------------- the state of the other objects

VARIABLES
    \* Parser._clients (parser.py:16): the set of names
    p_clients,
    \* Client._clients (client.py:28): the list of ClientInfo records, and
    \* Client._parse_errors (client.py:31)
    c_clients, c_parse_errors,
    \* the argument of the parse_message call made last (NoMessage: none
    \* yet), and the exception that call raised ("none": it returned)
    last_message, apply_exc,
    \* Client._socket as a loop-back peer sees it: the text handed to
    \* socket.write() and not read back yet
    wire,
    \* the arguments [cmd, data] of the write_command call made last and the
    \* exception it raised
    w_args, w_exc,
    \* Client._buf (client.py:26)
    c_buf,
    \* the frame handle_data decoded last, [mtype, mdata], and the
    \* exception read() raised ("none": it returned)
    frame, r_exc,
    \* Client fields: _socket (TRUE: an SSLSocket, FALSE: None), _connected,
    \* _in_flight (client.py:25-33)
    c_socket, c_connected, c_in_flight,
    \* position of the Client's caller: "idle" (no call in progress) or
    \* "connect" (inside Client.connect(), before handshake step c_step)
    c_pc, c_step,
    \* the local variable `data` of Client.connect()
    c_data,
    \* history: the writes and reads of the connect() call made last, in
    \* order: [op: "write", text] and [op: "read", data]
    c_io,
    \* history: the Client method called last and the one before it, and
    \* the exception the last one raised ("none": it returned)
    c_op, c_prev, c_exc,
    \* the server's side of the connection: the TLS records it sent that
    \* the client has not read to their end yet (a sequence of texts),
    \* whether it closed the connection, and (history) the message it sent
    \* last on this connection
    net, peer_closed, server_msg,
    \* history, since the server's last send: the frames handle_data()
    \* decoded, [mtype, mdata], in order; the messages it handed to
    \* parse_message, in order; the exceptions read() raised
    c_decoded, c_dispatched, c_raised,
    \* history: the bufsize argument of the read() call made last (0: none)
    c_bufsize

VARIABLES
    \* datetime.utcnow() as the Client sees it, in seconds since the Client
    \* was made
    c_now,
    \* Client._ts_last_query and Client._ts_last_connect_attempt
    \* (client.py:29-30)
    c_ts_last_query, c_ts_last_connect_attempt,
    \* history: what write_command() handed to socket.write() outside
    \* connect(), in order: [t, text]
    c_sent,
    \* position inside Client.parse_message(a_msg): "idle" (no call in
    \* progress) or "for" (before pass a_idx of the loop over
    \* message['clients'], or before the clean-up after its last pass); the
    \* local set `clients`; (history) self._clients when the call began
    a_pc, a_msg, a_idx, a_seen, a_before,
    \* what the collect() made last since parse_message was called last
    \* gave to the registry, with (history) self._clients as it was then
    \* (NoScrape: none)
    scraped,
    \* Daemon.run() call by call: the call the main thread is in ("head":
    \* the test of the stop flag; "tcp_connect", "wrap_socket": inside
    \* setup_socket(); "select": inside read(); "exited"), _connected and
    \* _stop, the bytes the server has sent that are not read yet, and
    \* len(data) inside read() (MaxLoopData: that many or more)
    l_pc, l_connected, l_stop, l_avail, l_data

parserVars == <<p_clients>>

clientVars == <<c_clients, c_parse_errors>>

applyVars == <<last_message, apply_exc>>

codecVars == <<wire, w_args, w_exc, c_buf, frame, r_exc>>

connVars ==
    <<c_socket, c_connected, c_in_flight, c_pc, c_step, c_data, c_io, c_op, c_prev, c_exc,
      net, peer_closed, server_msg, c_decoded, c_dispatched, c_raised,
      c_bufsize>>

timeVars == <<c_now, c_ts_last_query, c_ts_last_connect_attempt, c_sent>>

stepVars == <<a_pc, a_msg, a_idx, a_seen, a_before, scraped>>

blockVars == <<l_pc, l_connected, l_stop, l_avail, l_data>>

laterVars == <<stepVars, blockVars>>

extVars == <<timeVars, laterVars>>

\* What the Daemon never touches.
notDaemonVars == <<parserVars, clientVars, applyVars, codecVars, connVars, extVars>>

\* The empty labelled metric.
NoChildren == [n \in {} |-> 0]

\* Daemon.__init__ (d_socket: TRUE is an SSLSocket, FALSE is None).
InitDaemon ==
    /\ pc = "cli"
    /\ step = 0
    /\ caller = "cli"
    /\ now = 0
    /\ d_stop = FALSE
    /\ d_socket = FALSE
    /\ d_connected = FALSE
    /\ d_ts_last_connect_attempt = DatetimeMin
    /\ d_ts_last_query = DatetimeMin
    /\ d_clients = {}
    /\ SERVER_UP = 0
    /\ PARSE_ERRORS = 0
    /\ CLIENT_COUNT = 0
    /\ CLIENT_BACKUP_NUM = NoChildren
    /\ CLIENT_BACKUP_TIMESTAMP = NoChildren
    /\ CLIENT_BACKUP_HAS_IN_PROGRESS = NoChildren
    /\ CLIENT_RUN_STATUS = NoChildren
    /\ data = NoData
    /\ sent = <<>>
    /\ attempts = <<>>
    /\ raised = "none"
    /\ awaiting = 0

\* ------------------------------------------------- Daemon.setup_socket

\* How setup_socket() can end: the exception it raises ("none": it returns),
\* whether self._socket was assigned (line 110) before that, and whether
\* `except IOError` catches the exception.
\*   sock.connect raises ConnectionRefusedError (line 100);
\*   wrap_socket raises ssl.SSLError, an OSError (line 110);
\*   no peer certificate: Exception (line 114);
\*   ssl.match_hostname raises CertificateError (line 115), an OSError from
\*   Python 3.7 on and a ValueError before.
SetupOutcomes ==
    {[exc |-> "none", sock |-> TRUE, ioerror |-> FALSE],
     [exc |-> "ConnectionRefusedError", sock |-> FALSE, ioerror |-> TRUE],
     [exc |-> "SSLError", sock |-> FALSE, ioerror |-> TRUE],
     [exc |-> "Exception: No cert from peer", sock |-> TRUE, ioerror |-> FALSE],
     [exc |-> "CertificateError", sock |-> TRUE, ioerror |-> TRUE],
     [exc |-> "CertificateError", sock |-> TRUE, ioerror |-> FALSE]}

\* cli.py:76-86: d.setup_socket() at process start.  ConnectionRefusedError
\* and IOError are logged and d.run() is entered; any other exception leaves
\* cli().
CliSetupSocket ==
    /\ pc = "cli"
    /\ \E o \in SetupOutcomes :
        /\ d_socket' = o.sock
        /\ d_connected' = FALSE
        /\ attempts' = Append(attempts, [t |-> now, exc |-> o.exc])
        /\ sent' = <<>>
        /\ pc' = CASE o.exc = "none" -> "connect"
                   [] o.ioerror -> "loop"
                   [] OTHER -> "crashed"
        /\ raised' = IF o.exc = "none" \/ o.ioerror THEN "none" ELSE o.exc
        /\ step' = IF o.exc = "none" THEN 1 ELSE 0
    /\ caller' = "cli"
    /\ UNCHANGED <<now, d_stop, d_ts_last_connect_attempt, d_ts_last_query, SERVER_UP,
                   CLIENT_COUNT, data, awaiting>>
    /\ UNCHANGED metricVars
    /\ UNCHANGED notDaemonVars

\* ------------------------------------------------------- Daemon.read

\* How one read() can end: the text it returns, whether it found the peer
\* closed (a zero-length read: teardown_socket()), and the time it took.
\*   its first select times out: nothing, after timeout_seconds;
\*   a read shorter than bufsize: that text, at once;
\*   a zero-length read, at once, after nothing or after full-size reads
\*   (whose text here is one of the replies).
ReadOutcomes(replies) ==
    {[data |-> NoData, closed |-> FALSE, dt |-> timeout_seconds]}
        \cup {[data |-> r, closed |-> FALSE, dt |-> 0] : r \in replies \ {NoData}}
        \cup {[data |-> r, closed |-> TRUE, dt |-> 0] : r \in replies}

\* ------------------------------------------------------ Daemon.connect

\* The payload of the command each step writes (daemon.py:30 for the
\* version, settings.py:19 and :21 for cname and password).
HsCommand(k) ==
    CASE k = 1 -> "hello:2.1.28"
      [] k = 2 -> "burp"
      [] k = 3 -> "abcdefgh"
      [] k = 4 -> "nocsr"
      [] k = 5 -> "extra_comms_begin"
      [] k = 6 -> "extra_comms_end"
      [] k = 7 -> "j:pretty-print-off"

\* The substring each step looks for in its reply.
HsExpected(k) ==
    CASE k = 1 -> T_whoareyou
      [] k = 2 -> T_okpassword
      [] k = 3 -> T_ok
      [] k = 4 -> T_nocsr_ok
      [] k = 5 -> T_extra_comms_begin_ok
      [] k = 6 -> T_extra_comms_end_ok

\* Variants of ReplyAccepted: the substring test dropped; the emptiness test
\* dropped.
ReplyAcceptedAnyText(k, d) == d # NoData
ReplyAcceptedOrEmpty(k, d) == d = NoData \/ Contains(d, HsExpected(k))

\* `data and '<expected>' in data`, the test after each of the reads of
\* steps 1 to 6.
ReplyAccepted(k, d) == d # NoData /\ Contains(d, HsExpected(k))

\* daemon.py:380-385: the capability acks the extra_comms_begin reply d
\* asks for, in the order they are written.
CapabilityAcks(d) ==
    (IF Contains(d, T_counters_json) THEN <<"counters_json ok">> ELSE <<>>)
        \o (IF Contains(d, T_uname) THEN <<"uname=Linux">> ELSE <<>>)
        \o (IF Contains(d, T_msg) THEN <<"msg">> ELSE <<>>)

\* What step k writes before its read.
HsWrites(k, d) ==
    IF k = 6 THEN CapabilityAcks(d) \o <<HsCommand(6)>>
    ELSE IF k = 8 THEN <<>>
    ELSE <<HsCommand(k)>>

\* Variant of ConnectRaised: run() does not tear the socket down.
ConnectRaisedNoTeardown(sock) ==
    /\ pc' = "loop"
    /\ step' = 0
    /\ d_connected' = FALSE
    /\ d_socket' = sock

\* connect() raised IOError with the socket in state sock: cli() logs it
\* and enters run() (cli.py:83-86); run() calls teardown_socket()
\* (daemon.py:200-202).
ConnectRaised(sock) ==
    /\ pc' = "loop"
    /\ step' = 0
    /\ d_connected' = FALSE
    /\ d_socket' = IF caller = "run" THEN FALSE ELSE sock

\* connect() goes on to step k with the socket in state sock.
ConnectGoesOn(k, sock) ==
    /\ pc' = "connect"
    /\ step' = k
    /\ d_connected' = FALSE
    /\ d_socket' = sock

hsFrame ==
    <<caller, d_stop, d_ts_last_connect_attempt, d_ts_last_query, SERVER_UP, CLIENT_COUNT,
      attempts, raised, awaiting>>

\* Steps 1, 2, 4, 5 and 6: write the command (step 6: the capability acks
\* first), read the reply, raise IOError unless it holds the expected text.
\* write_command raises IOError when the socket is gone.
ConnectStep(k) ==
    /\ pc = "connect"
    /\ step = k
    /\ k \in {1, 2, 4, 5, 6}
    /\ IF ~d_socket
       THEN ConnectRaised(FALSE) /\ UNCHANGED <<now, sent, data>>
       ELSE \E rd \in ReadOutcomes(HandshakeReplies) :
            /\ now + rd.dt <= MaxTime
            /\ now' = now + rd.dt
            /\ sent' = sent \o HsWrites(k, data)
            /\ data' = rd.data
            /\ IF ReplyAccepted(k, rd.data)
               THEN ConnectGoesOn(k + 1, ~rd.closed)
               ELSE ConnectRaised(~rd.closed)
    /\ UNCHANGED hsFrame
    /\ UNCHANGED metricVars
    /\ UNCHANGED notDaemonVars

\* Step 3: write the password and read; a reply starting with w is a
\* warning, logged, and the reply is read again.
ConnectPassword ==
    /\ pc = "connect"
    /\ step = 3
    /\ IF ~d_socket
       THEN ConnectRaised(FALSE) /\ UNCHANGED <<now, sent, data>>
       ELSE \E r1 \in ReadOutcomes(HandshakeReplies) :
            /\ sent' = sent \o HsWrites(3, data)
            /\ IF r1.data # NoData /\ StartsWith(r1.data, <<"w">>)
               THEN IF r1.closed
                    THEN \* the second read() raises IOError('No socket')
                         /\ now + r1.dt <= MaxTime
                         /\ now' = now + r1.dt
                         /\ data' = r1.data
                         /\ ConnectRaised(FALSE)
                    ELSE \E r2 \in ReadOutcomes(HandshakeReplies) :
                         /\ now + r1.dt + r2.dt <= MaxTime
                         /\ now' = now + r1.dt + r2.dt
                         /\ data' = r2.data
                         /\ IF ReplyAccepted(3, r2.data)
                            THEN ConnectGoesOn(4, ~r2.closed)
                            ELSE ConnectRaised(~r2.closed)
               ELSE /\ now + r1.dt <= MaxTime
                    /\ now' = now + r1.dt
                    /\ data' = r1.data
                    /\ IF ReplyAccepted(3, r1.data)
                       THEN ConnectGoesOn(4, ~r1.closed)
                       ELSE ConnectRaised(~r1.closed)
    /\ UNCHANGED hsFrame
    /\ UNCHANGED metricVars
    /\ UNCHANGED notDaemonVars

\* Step 7: write j:pretty-print-off and read; what is read is dropped.
ConnectPrettyPrintOff ==
    /\ pc = "connect"
    /\ step = 7
    /\ IF ~d_socket
       THEN ConnectRaised(FALSE) /\ UNCHANGED <<now, sent>>
       ELSE \E rd \in ReadOutcomes(HandshakeReplies) :
            /\ now + rd.dt <= MaxTime
            /\ now' = now + rd.dt
            /\ sent' = sent \o HsWrites(7, data)
            /\ ConnectGoesOn(8, ~rd.closed)
    /\ UNCHANGED data
    /\ UNCHANGED hsFrame
    /\ UNCHANGED metricVars
    /\ UNCHANGED notDaemonVars

\* Step 8: the second read, dropped as well; then self._connected = True
\* and connect() returns (to cli(), which enters run(), or to run()).  A
\* zero-length read here has called teardown_socket() before that.
ConnectFinalRead ==
    /\ pc = "connect"
    /\ step = 8
    /\ IF ~d_socket
       THEN ConnectRaised(FALSE) /\ UNCHANGED now
       ELSE \E rd \in ReadOutcomes(HandshakeReplies) :
            /\ now + rd.dt <= MaxTime
            /\ now' = now + rd.dt
            /\ pc' = "loop"
            /\ step' = 0
            /\ d_socket' = ~rd.closed
            /\ d_connected' = TRUE
    /\ UNCHANGED <<sent, data>>
    /\ UNCHANGED hsFrame
    /\ UNCHANGED metricVars
    /\ UNCHANGED notDaemonVars

\* --------------------------------------------------------- Daemon.run

\* The parse-error counter stops the model's server here.
MaxParseErrors == 1

\* Variant of CoolDownElapsed: the one-minute timedelta forgotten.
CoolDownElapsedNoDelta == d_ts_last_connect_attempt < now

\* daemon.py:187
CoolDownElapsed == d_ts_last_connect_attempt < now - ConnectCoolDown

\* daemon.py:213
QueryDue == d_ts_last_query < now - QueryInterval

\* What the server may send on an established connection.
ServerMessages ==
    {F_2c, F_1c, F_bad1, F_other, F_sentinel, F_warning, F_badtype, F_badhex, F_short,
     F_lenmismatch, F_badjson}

\* time.sleep(60): the time it takes.
SleepDurations == {SleepSeconds, SleepSeconds + 1}

\* Variant of DaemonReconcilerState: the errors are counted per snapshot.
DaemonReconcilerStatePerSnapshot ==
    [clients |-> d_clients, seen |-> {}, parse_errors |-> 0,
     num |-> CLIENT_BACKUP_NUM, ts |-> CLIENT_BACKUP_TIMESTAMP,
     in_progress |-> CLIENT_BACKUP_HAS_IN_PROGRESS, run_status |-> CLIENT_RUN_STATUS,
     exc |-> "none"]

\* The reconciler state parse_message works on.
DaemonReconcilerState ==
    [clients |-> d_clients, seen |-> {}, parse_errors |-> PARSE_ERRORS,
     num |-> CLIENT_BACKUP_NUM, ts |-> CLIENT_BACKUP_TIMESTAMP,
     in_progress |-> CLIENT_BACKUP_HAS_IN_PROGRESS, run_status |-> CLIENT_RUN_STATUS,
     exc |-> "none"]

SetReconcilerState(st) ==
    /\ d_clients' = st.clients
    /\ PARSE_ERRORS' = st.parse_errors
    /\ CLIENT_BACKUP_NUM' = st.num
    /\ CLIENT_BACKUP_TIMESTAMP' = st.ts
    /\ CLIENT_BACKUP_HAS_IN_PROGRESS' = st.in_progress
    /\ CLIENT_RUN_STATUS' = st.run_status

\* `while not self._stop` ends: teardown_socket(), run() returns.
RunExit ==
    /\ pc = "loop"
    /\ d_stop
    /\ pc' = "done"
    /\ d_connected' = FALSE
    /\ d_socket' = FALSE
    /\ awaiting' = 0
    /\ UNCHANGED <<step, caller, now, d_stop, d_ts_last_connect_attempt, d_ts_last_query,
                   SERVER_UP, CLIENT_COUNT, data, sent, attempts, raised>>
    /\ UNCHANGED metricVars
    /\ UNCHANGED notDaemonVars

\* Not connected and the last attempt more than a minute ago: tear down a
\* stale socket, setup_socket(), then connect().  ConnectionRefusedError is
\* caught (teardown_socket()); any other exception of setup_socket() leaves
\* run() and cli().
RunAttempt ==
    /\ pc = "loop"
    /\ ~d_stop
    /\ ~d_connected
    /\ CoolDownElapsed
    /\ SERVER_UP' = 0
    /\ d_ts_last_connect_attempt' = now
    /\ \E o \in SetupOutcomes :
        /\ attempts' = Append(attempts, [t |-> now, exc |-> o.exc])
        /\ d_connected' = FALSE
        /\ d_socket' = IF o.exc = "ConnectionRefusedError" THEN FALSE ELSE o.sock
        /\ pc' = CASE o.exc = "none" -> "connect"
                   [] o.exc = "ConnectionRefusedError" -> "loop"
                   [] OTHER -> "crashed"
        /\ raised' = IF o.exc \in {"none", "ConnectionRefusedError"} THEN "none" ELSE o.exc
        /\ step' = IF o.exc = "none" THEN 1 ELSE 0
    /\ caller' = "run"
    /\ sent' = <<>>
    /\ data' = NoData
    /\ awaiting' = 0
    /\ UNCHANGED <<now, d_stop, d_ts_last_query, CLIENT_COUNT>>
    /\ UNCHANGED metricVars
    /\ UNCHANGED notDaemonVars

\* Not connected and the last attempt within the last minute: time.sleep(60),
\* which a KeyboardInterrupt ends with self._stop = True.
RunSleep ==
    /\ pc = "loop"
    /\ ~d_stop
    /\ ~d_connected
    /\ ~CoolDownElapsed
    /\ SERVER_UP' = 0
    /\ \/ \E dt \in SleepDurations :
            /\ now + dt <= MaxTime
            /\ now' = now + dt
            /\ d_stop' = d_stop
       \/ /\ now' = now
          /\ d_stop' = TRUE
    /\ UNCHANGED <<pc, step, caller, d_socket, d_connected, d_ts_last_connect_attempt,
                   d_ts_last_query, CLIENT_COUNT, data, sent, attempts, raised, awaiting>>
    /\ UNCHANGED metricVars
    /\ UNCHANGED notDaemonVars

\* Connected: send the snapshot request when it is due, then read() and
\* handle_data().  Only KeyboardInterrupt is caught around them; IOError of
\* write_command or read (no socket) and every exception of handle_data
\* leave run() and cli().
RunConnected ==
    /\ pc = "loop"
    /\ ~d_stop
    /\ d_connected
    /\ SERVER_UP' = 1
    /\ d_ts_last_query' = IF QueryDue THEN now ELSE d_ts_last_query
    /\ IF ~d_socket
       THEN \* write_command, or else read, raises IOError('No socket')
            /\ pc' = "crashed"
            /\ raised' = "IOError: No socket"
            /\ UNCHANGED <<now, d_stop, d_socket, d_connected, CLIENT_COUNT, sent, awaiting>>
            /\ UNCHANGED metricVars
       ELSE /\ sent' = IF QueryDue THEN Append(sent, "c:") ELSE sent
            /\ \/ \* KeyboardInterrupt during read()
                  /\ d_stop' = TRUE
                  /\ CLIENT_COUNT' = Cardinality(d_clients)
                  /\ awaiting' = IF QueryDue THEN awaiting + 1 ELSE awaiting
                  /\ UNCHANGED <<pc, now, d_socket, d_connected, raised>>
                  /\ UNCHANGED metricVars
               \/ \E rd \in ReadOutcomes(ServerMessages) :
                  LET st == IF rd.data = NoData
                            THEN DaemonReconcilerState
                            ELSE DaemonHandleData(DaemonReconcilerState, rd.data)
                  IN  /\ now + rd.dt <= MaxTime
                      /\ st.parse_errors <= MaxParseErrors
                      /\ now' = now + rd.dt
                      /\ d_socket' = ~rd.closed
                      /\ d_connected' = ~rd.closed
                      /\ SetReconcilerState(st)
                      /\ awaiting' = IF rd.closed \/ rd.data # NoData THEN 0
                                     ELSE IF QueryDue THEN awaiting + 1 ELSE awaiting
                      /\ pc' = IF st.exc = "none" THEN "loop" ELSE "crashed"
                      /\ raised' = st.exc
                      /\ CLIENT_COUNT' = IF st.exc = "none" THEN Cardinality(st.clients)
                                         ELSE CLIENT_COUNT
                      /\ UNCHANGED d_stop
    /\ UNCHANGED <<step, caller, d_ts_last_connect_attempt, data, attempts>>
    /\ UNCHANGED notDaemonVars

\* signal_handler: SIGTERM sets self._stop (installed by Daemon.__init__).
Sigterm ==
    /\ pc \in {"cli", "connect", "loop"}
    /\ ~d_stop
    /\ d_stop' = TRUE
    /\ UNCHANGED <<pc, step, caller, now, d_socket, d_connected, d_ts_last_connect_attempt,
                   d_ts_last_query, SERVER_UP, CLIENT_COUNT, data, sent, attempts, raised,
                   awaiting>>
    /\ UNCHANGED metricVars
    /\ UNCHANGED notDaemonVars

NextDaemon ==
    \/ CliSetupSocket
    \/ \E k \in {1, 2, 4, 5, 6} : ConnectStep(k)
    \/ ConnectPassword
    \/ ConnectPrettyPrintOff
    \/ ConnectFinalRead
    \/ RunExit
    \/ RunAttempt
    \/ RunSleep
    \/ RunConnected
    \/ Sigterm

\* A process interrupt (SIGINT, raised as KeyboardInterrupt in the main
\* thread) arrives while run() is inside connect(): the try around
\* connect() catches IOError only (daemon.py:198-202), those around
\* time.sleep() and read() are not entered, so the exception leaves run()
\* before its last statement, teardown_socket() (daemon.py:233).
RunInterrupted ==
    /\ pc = "connect"
    /\ caller = "run"
    /\ pc' = "crashed"
    /\ raised' = "KeyboardInterrupt"
    /\ UNCHANGED <<step, caller, now, d_stop, d_socket, d_connected,
                   d_ts_last_connect_attempt, d_ts_last_query, SERVER_UP, CLIENT_COUNT,
                   data, sent, attempts, awaiting>>
    /\ UNCHANGED metricVars
    /\ UNCHANGED notDaemonVars

NextInterrupt ==
    \/ NextDaemon
    \/ RunInterrupted

\* --------------------------------------------- the inputs of parse_message

MaxEntries == 2
MaxApplyErrors == 3

O_testclient ==
    [name |-> "testclient", run_status |-> "idle", protocol |-> 1, backups |-> <<>>]
O_burp_working ==
    [name |-> "burp", labels |-> <<"team=cs">>, run_status |-> "running", protocol |-> 1,
     backups |-> <<[number |-> 5, timestamp |-> 9, flags |-> <<"working">>]>>]

\* burp with an empty backups list, and burp with two backups flagged
\* current.
O_burp_empty == [name |-> "burp", run_status |-> "idle", protocol |-> 1, backups |-> <<>>]
O_burp_two ==
    [name |-> "burp", run_status |-> "idle", protocol |-> 1,
     backups |-> <<[number |-> 2, timestamp |-> 3, flags |-> <<"current">>],
                   [number |-> 4, timestamp |-> 7, flags |-> <<"current">>]>>]

\* The client entries a snapshot of the model is made of: valid ones (two of
\* them with the name burp) and one that lacks the required field protocol.
Entries == {O_asdf, O_burp, O_testclient, O_burp_working, O_burp_noproto}

\* data_3c of tests/test_parser.py: asdf, burp and testclient.
O_3c == [clients |-> <<O_asdf, O_burp, O_testclient>>]

\* The decoded messages: those with a clients array of up to MaxEntries
\* entries, the three clients of the test, burp alone with no backups and
\* with two current ones, and one without a clients array.
Snapshots ==
    {[clients |-> e] : e \in UNION {[1..n -> Entries] : n \in 0..MaxEntries}}
        \cup {O_3c, [clients |-> <<O_burp_empty>>], [clients |-> <<O_burp_two>>], O_other}

NoMessage == [none |-> TRUE]

\* The daemon's variables other than the module-level metrics.
daemonOnlyVars ==
    <<pc, step, caller, now, d_stop, d_socket, d_connected, d_ts_last_connect_attempt,
      d_ts_last_query, d_clients, SERVER_UP, CLIENT_COUNT, data, sent, attempts, raised,
      awaiting>>

\* ---------------------------------------------------- Parser (parser.py)

\* Parser.__init__
InitParser == p_clients = {}

InitApply ==
    /\ last_message = NoMessage
    /\ apply_exc = "none"

\* Parser.parse_message(message): the text of Daemon.parse_message, on
\* Parser._clients and the same module-level metrics.
ParserParseMessage(st, msg) == DaemonParseMessage(st, msg)

ParserReconcilerState ==
    [clients |-> p_clients, seen |-> {}, parse_errors |-> PARSE_ERRORS,
     num |-> CLIENT_BACKUP_NUM, ts |-> CLIENT_BACKUP_TIMESTAMP,
     in_progress |-> CLIENT_BACKUP_HAS_IN_PROGRESS, run_status |-> CLIENT_RUN_STATUS,
     exc |-> "none"]

\* p.parse_message(json.loads(...)), as tests/test_parser.py calls it.
ParserParse ==
    \E msg \in Snapshots :
        LET st == ParserParseMessage(ParserReconcilerState, msg)
        IN  /\ st.parse_errors <= MaxApplyErrors
            /\ p_clients' = st.clients
            /\ PARSE_ERRORS' = st.parse_errors
            /\ CLIENT_BACKUP_NUM' = st.num
            /\ CLIENT_BACKUP_TIMESTAMP' = st.ts
            /\ CLIENT_BACKUP_HAS_IN_PROGRESS' = st.in_progress
            /\ CLIENT_RUN_STATUS' = st.run_status
            /\ last_message' = msg
            /\ apply_exc' = st.exc
            /\ UNCHANGED <<daemonOnlyVars, clientVars, codecVars, connVars, extVars>>

NextParser == ParserParse

\* ------------------------------------- Client.parse_message (client.py)

\* Optional[...] fields: None, or the value given.
None == <<>>
Some(v) == <<v>>

\* BackupInfo(**b) and ClientInfo(**client) of types.py, for an entry that
\* validates: the Optional fields left out become None.
BackupInfo(b) ==
    [number |-> b.number, timestamp |-> b.timestamp, flags |-> b.flags,
     logs |-> IF "logs" \in DOMAIN b THEN Some(b.logs) ELSE None]

ClientInfo(client) ==
    [name |-> client.name,
     labels |-> IF "labels" \in DOMAIN client THEN Some(client.labels) ELSE None,
     run_status |-> client.run_status,
     protocol |-> client.protocol,
     backups |-> [i \in DOMAIN client.backups |-> BackupInfo(client.backups[i])]]

\* ClientInfo.__eq__(self, other) for a str other.
ClientInfoEq(self, other) == self.name = other

\* Variant of ClientInvalid: the error is not counted.
ClientInvalidNotCounted(st) == st

\* The except ValidationError branch.
ClientInvalid(st) == [st EXCEPT !.parse_errors = @ + 1]

\* Variant of ClientEntry: the record of an existing name keeps its labels
\* when the new entry has none.
ClientEntryMerged(st, client) ==
    IF ~ValidClient(client)
    THEN ClientInvalid(st)
    ELSE LET info == ClientInfo(client)
             cls == st.clients
         IN  IF ~\E i \in DOMAIN cls : ClientInfoEq(cls[i], info.name)
             THEN [st EXCEPT !.seen = @ \cup {info.name},
                             !.clients = Append(cls, info)]
             ELSE [st EXCEPT !.seen = @ \cup {info.name},
                             !.clients = [i \in DOMAIN cls |->
                                             IF cls[i].name # info.name THEN cls[i]
                                             ELSE IF info.labels = None
                                             THEN [info EXCEPT !.labels = cls[i].labels]
                                             ELSE info]]

\* One pass of `for client in message['clients']`.
ClientEntry(st, client) ==
    IF ~ValidClient(client)
    THEN ClientInvalid(st)
    ELSE LET info == ClientInfo(client)
             cls == st.clients
         IN  IF ~\E i \in DOMAIN cls : ClientInfoEq(cls[i], info.name)
             THEN [st EXCEPT !.seen = @ \cup {info.name},
                             !.clients = Append(cls, info)]
             ELSE [st EXCEPT !.seen = @ \cup {info.name},
                             !.clients = [i \in DOMAIN cls |->
                                             IF cls[i].name = info.name THEN info
                                             ELSE cls[i]]]

RECURSIVE ClientEntries(_, _, _)
ClientEntries(st, entries, i) ==
    IF i > Len(entries)
    THEN st
    ELSE ClientEntries(ClientEntry(st, entries[i]), entries, i + 1)

\* self._clients = [x for x in self._clients if x.name in clients]
ClientCleanup(st) ==
    LET Seen(x) == x.name \in st.seen
    IN  [st EXCEPT !.clients = SelectSeq(@, Seen)]

\* Variant of ClientParseMessage: message.get('clients', []).
ClientParseMessageLenient(st, msg) ==
    IF "clients" \in DOMAIN msg
    THEN ClientCleanup(ClientEntries([st EXCEPT !.seen = {}], msg.clients, 1))
    ELSE ClientCleanup([st EXCEPT !.seen = {}])

\* Client.parse_message(message) on the state st: the state after it, with
\* exc naming the exception it raised.
ClientParseMessage(st, msg) ==
    IF "clients" \in DOMAIN msg
    THEN ClientCleanup(ClientEntries([st EXCEPT !.seen = {}], msg.clients, 1))
    ELSE [st EXCEPT !.exc = "Exception: Unknown data"]

\* Client.__init__: the fields of the reconciler.
InitClient ==
    /\ c_clients = <<>>
    /\ c_parse_errors = 0

ClientReconcilerState ==
    [clients |-> c_clients, seen |-> {}, parse_errors |-> c_parse_errors, exc |-> "none"]

\* client.parse_message(message)
ClientParse ==
    \E msg \in Snapshots :
        LET st == ClientParseMessage(ClientReconcilerState, msg)
        IN  /\ st.parse_errors <= MaxApplyErrors
            /\ c_clients' = st.clients
            /\ c_parse_errors' = st.parse_errors
            /\ last_message' = msg
            /\ apply_exc' = st.exc
            /\ UNCHANGED <<daemonVars, parserVars, codecVars, connVars, extVars>>

NextApply == ClientParse

\* ------------------------- Client.write_command, read and handle_data

MaxPayloadLen == 3

\* '%04X' % n: upper-case hexadecimal digits, zero-padded to four (more
\* than four when n > 0xFFFF).
RECURSIVE HexText(_)
HexText(n) ==
    IF n < 16
    THEN <<HexDigits[n + 1]>>
    ELSE Append(HexText(n \div 16), HexDigits[(n % 16) + 1])

RECURSIVE ZeroPad(_, _)
ZeroPad(s, width) == IF Len(s) >= width THEN s ELSE ZeroPad(<<"0">> \o s, width)

\* Variant of Format04X: '%X', no padding.
FormatX(n) == HexText(n)

\* '%04X' % n
Format04X(n) == ZeroPad(HexText(n), 4)

\* Client.write_command(cmd, data) with self._socket present or not: the
\* exception it raises and the text it hands to socket.write().  The texts
\* of the model are ASCII, which encode('utf-8') leaves one byte each.
\* Variant of WriteCommand: no test for a socket; None has no write().
WriteCommandNoSocketTest(sock, cmd, payload) ==
    IF Len(cmd) > 1
    THEN [exc |-> "IOError: Command must be a single character", written |-> <<>>]
    ELSE IF Len(cmd) = 0
    THEN [exc |-> "TypeError", written |-> <<>>]
    ELSE IF ~sock
    THEN [exc |-> "AttributeError", written |-> <<>>]
    ELSE [exc |-> "none",
          written |-> cmd \o Format04X(Len(payload) + 1) \o payload \o <<NUL>>]

WriteCommand(sock, cmd, payload) ==
    IF ~sock
    THEN [exc |-> "IOError: No socket", written |-> <<>>]
    ELSE IF Len(cmd) > 1
    THEN [exc |-> "IOError: Command must be a single character", written |-> <<>>]
    ELSE IF Len(cmd) = 0
    THEN \* '%c' % ''
         [exc |-> "TypeError", written |-> <<>>]
    ELSE [exc |-> "none",
          written |-> cmd \o Format04X(Len(payload) + 1) \o payload \o <<NUL>>]

NoFrame == [mtype |-> "", mdata |-> <<>>]

\* The `while True` loop of Client.handle_data on the text buf; st carries
\* the reconciler's fields, the frame sliced last and the message handed to
\* parse_message last.
RECURSIVE ClientHandleLoop(_, _)
ClientHandleLoop(st, buf) ==
    LET mtype == buf[1]
        dlen == Len(buf)
        mlen == int16(SubSeq(buf, 2, 5))
        mdata == SubSeq(buf, 6, mlen + 5)
        json_data == json_loads(mdata)
        st0 == [st EXCEPT !.mtype = mtype, !.mdata = mdata]
        st1 == IF mtype = "c"
               THEN IF "error" \in DOMAIN json_data
                    THEN [st0 EXCEPT !.exc = "JSONDecodeError"]
                    ELSE ClientParseMessage([st0 EXCEPT !.message = json_data], json_data)
               ELSE IF mtype = "w"
               THEN st0
               ELSE [st0 EXCEPT !.exc = "Exception: Unexpected message type"]
        \* buf[mlen + 5:-1]
        rest == SubSeq(buf, mlen + 6, dlen - 1)
    IN  IF dlen = 6 /\ buf = F_sentinel THEN st
        ELSE IF dlen < 5 THEN [st EXCEPT !.exc = "Exception: Message too short"]
        ELSE IF mlen = ValueError16 THEN [st EXCEPT !.exc = "Exception: Invalid length"]
        ELSE IF dlen # mlen + 5 THEN [st EXCEPT !.exc = "Exception: Expected payload length"]
        ELSE IF st1.exc # "none" THEN st1
        ELSE IF Len(rest) < 1 THEN st1
        ELSE ClientHandleLoop(st1, rest)

\* Client.handle_data() on self._buf = buf, buf not empty.
ClientHandleData(st, buf) ==
    IF buf[1] \notin {"c", "w"}
    THEN [st EXCEPT !.exc = "IOError: Unexpected code"]
    ELSE ClientHandleLoop(st, buf)

\* The largest length four hexadecimal digits can declare, 0xFFFF.
MaxDeclaredLength == (16 * 16 * 16 * 16) - 1

\* The first command of connect() (client.py:262, types.py:54), and a
\* payload whose length + 1 is MaxDeclaredLength + 1.
T_hello == <<"h", "e", "l", "l", "o", ":", "2", ".", "1", ".", "1", "8">>

LongPayload == [i \in 1..MaxDeclaredLength |-> "h"]

\* The commands and payloads write_command is called with: the two command
\* characters, another character, no character and two characters; texts of
\* up to MaxPayloadLen characters, two JSON documents, the hello text and
\* the long payload.
Commands == {<<"c">>, <<"w">>, <<"x">>, <<>>, <<"c", "w">>}

Payloads ==
    UNION {[1..n -> {"c", ":", "h"}] : n \in 0..MaxPayloadLen}
        \cup {J_other, J_1c, T_hello, LongPayload}

NoArgs == [cmd |-> <<>>, data |-> <<>>, sock |-> FALSE, called |-> FALSE]

\* Client.__init__: the socket side and the buffer.
InitCodec ==
    /\ wire = <<>>
    /\ w_args = NoArgs
    /\ w_exc = "none"
    /\ c_buf = <<>>
    /\ frame = NoFrame
    /\ r_exc = "none"

\* client.write_command(cmd, data) on a new Client whose socket, when it
\* has one, is connected to a peer that sends back what it receives.
ClientWriteCommand ==
    /\ ~w_args.called
    /\ \E sock \in BOOLEAN, cmd \in Commands, payload \in Payloads :
        LET w == WriteCommand(sock, cmd, payload)
        IN  /\ w_args' = [cmd |-> cmd, data |-> payload, sock |-> sock, called |-> TRUE]
            /\ w_exc' = w.exc
            /\ wire' = w.written
    /\ UNCHANGED <<c_buf, frame, r_exc>>
    /\ UNCHANGED <<daemonVars, parserVars, clientVars, applyVars, connVars, extVars>>

\* client.read() with data available: rec_data is what the peer sent back,
\* less than bufsize bytes, so handle_data() runs; it clears self._buf only
\* when it returns.
ClientRead ==
    /\ wire # <<>>
    /\ LET buf == c_buf \o wire
           st == ClientHandleData([clients |-> c_clients, seen |-> {},
                                   parse_errors |-> c_parse_errors, exc |-> "none",
                                   mtype |-> "", mdata |-> <<>>,
                                   message |-> last_message], buf)
       IN  /\ st.parse_errors <= MaxApplyErrors
           /\ c_buf' = IF st.exc = "none" THEN <<>> ELSE buf
           /\ frame' = [mtype |-> st.mtype, mdata |-> st.mdata]
           /\ r_exc' = st.exc
           /\ c_clients' = st.clients
           /\ c_parse_errors' = st.parse_errors
           /\ last_message' = st.message
    /\ wire' = <<>>
    /\ UNCHANGED <<w_args, w_exc, apply_exc>>
    /\ UNCHANGED <<daemonVars, parserVars, connVars, extVars>>

\* Client(...): a new Client replaces the one used.
ClientNew ==
    /\ w_args.called
    /\ wire = <<>>
    /\ wire' = <<>>
    /\ w_args' = NoArgs
    /\ w_exc' = "none"
    /\ c_buf' = <<>>
    /\ frame' = NoFrame
    /\ r_exc' = "none"
    /\ c_clients' = <<>>
    /\ c_parse_errors' = 0
    /\ UNCHANGED <<applyVars, daemonVars, parserVars, connVars, extVars>>

NextCodec ==
    \/ ClientWriteCommand
    \/ ClientRead
    \/ ClientNew

\* ------------ Client: __init__, setup_socket, teardown_socket, connect

\* Client.__init__: the connection's fields; no server side yet.
InitConn ==
    /\ c_socket = FALSE
    /\ c_connected = FALSE
    /\ c_in_flight = FALSE
    /\ c_pc = "idle"
    /\ c_step = 0
    /\ c_data = NoData
    /\ c_io = <<>>
    /\ c_op = "__init__"
    /\ c_prev = "none"
    /\ c_exc = "none"
    /\ net = <<>>
    /\ peer_closed = FALSE
    /\ server_msg = <<>>
    /\ c_decoded = <<>>
    /\ c_dispatched = <<>>
    /\ c_raised = {}
    /\ c_bufsize = 0

\* settings.refresh_interval_seconds (types.py:52), in seconds.
refresh_interval_seconds == 60

\* Client.__init__: both timestamps are one refresh interval in the past.
InitTime ==
    /\ c_now = 0
    /\ c_ts_last_query = 0 - refresh_interval_seconds
    /\ c_ts_last_connect_attempt = 0 - refresh_interval_seconds
    /\ c_sent = <<>>

\* The method op is called now.
Called(op) ==
    /\ c_op' = op
    /\ c_prev' = c_op

\* What the calls on the connection leave alone.
codecRest == <<wire, w_args, w_exc, frame, r_exc>>

recvHist == <<c_decoded, c_dispatched, c_raised>>

notConnVars == <<daemonVars, parserVars, clientVars, applyVars>>

\* What the calls other than read() leave alone.
notReadVars == <<codecRest, notConnVars, c_bufsize, extVars>>

\* The fields of the Client: those teardown_socket() touches, then the
\* table, the error count and the timestamps.
ClientSelf ==
    [socket |-> c_socket, connected |-> c_connected, in_flight |-> c_in_flight,
     buf |-> c_buf, clients |-> c_clients, parse_errors |-> c_parse_errors,
     ts_last_query |-> c_ts_last_query,
     ts_last_connect_attempt |-> c_ts_last_connect_attempt]

SetClientSelf(self) ==
    /\ c_socket' = self.socket
    /\ c_connected' = self.connected
    /\ c_in_flight' = self.in_flight
    /\ c_buf' = self.buf

\* Variants of ClientTeardownSocket: the buffer is kept; shutdown() is
\* called without the test for a socket; the table goes with the
\* connection.
ClientTeardownSocketDropsTable(self) ==
    [self |-> [self EXCEPT !.connected = FALSE, !.in_flight = FALSE, !.buf = <<>>,
                           !.socket = FALSE, !.clients = <<>>],
     exc |-> "none"]

ClientTeardownSocketKeepsBuf(self) ==
    [self |-> [self EXCEPT !.connected = FALSE, !.in_flight = FALSE, !.socket = FALSE],
     exc |-> "none"]

ClientTeardownSocketNoTest(self) ==
    [self |-> [self EXCEPT !.connected = FALSE, !.in_flight = FALSE, !.buf = <<>>,
                           !.socket = FALSE],
     exc |-> IF self.socket THEN "none" ELSE "AttributeError"]

\* Client.teardown_socket(): the flags and the buffer are cleared; a socket,
\* if there is one, is shut down, closed and dropped.  Yields the fields
\* after the call and what the call raised.
ClientTeardownSocket(self) ==
    [self |-> [self EXCEPT !.connected = FALSE, !.in_flight = FALSE, !.buf = <<>>,
                           !.socket = FALSE],
     exc |-> "none"]

\* client.teardown_socket() called from outside.
ClientTeardown ==
    /\ c_pc = "idle"
    /\ Called("teardown_socket")
    /\ c_exc' = ClientTeardownSocket(ClientSelf).exc
    /\ SetClientSelf(ClientTeardownSocket(ClientSelf).self)
    /\ c_clients' = ClientTeardownSocket(ClientSelf).self.clients
    /\ c_parse_errors' = ClientTeardownSocket(ClientSelf).self.parse_errors
    /\ c_ts_last_query' = ClientTeardownSocket(ClientSelf).self.ts_last_query
    /\ c_ts_last_connect_attempt' =
           ClientTeardownSocket(ClientSelf).self.ts_last_connect_attempt
    /\ net' = <<>>
    /\ peer_closed' = FALSE
    /\ UNCHANGED <<c_pc, c_step, c_data, c_io, server_msg, recvHist>>
    /\ UNCHANGED <<codecRest, daemonVars, parserVars, applyVars, c_bufsize, c_now, c_sent,
                   laterVars>>

\* The servers of the model: "any" answers anything, refuses, fails the TLS
\* set-up and closes when it likes; "script" accepts the connection, gives
\* at each of the steps 1 to 6 a reply holding the text the step looks for
\* (at step 5 without capability tokens), anything at the two last reads,
\* and does not close; "plain" gives the one usual reply at each step and
\* is silent at the two last reads.
Servers == {"any", "script", "plain"}

R_ecb_counters == <<"c", "0", "0", "2", "3">> \o T_extra_comms_begin_ok \o T_counters_json
R_ecb_msg == <<"c", "0", "0", "1", "9">> \o T_extra_comms_begin_ok \o T_msg

ClientHandshakeReplies == HandshakeReplies \cup {R_ecb_counters, R_ecb_msg}

\* The text step k of Client.connect() looks for in its reply
\* (client.py:264, 272, 284, 289, 294, 306).
ClientHsExpected(k) ==
    CASE k = 1 -> T_whoareyou
      [] k = 2 -> T_okpassword
      [] k = 3 -> T_ok
      [] k = 4 -> T_nocsr_ok
      [] k = 5 -> T_extra_comms_begin_ok
      [] k = 6 -> T_extra_comms_end_ok

HasCapabilityToken(d) ==
    Contains(d, T_counters_json) \/ Contains(d, T_uname) \/ Contains(d, T_msg)

ScriptReplies(k) ==
    IF k \in 1..6
    THEN {r \in ClientHandshakeReplies \ {NoData} :
              /\ Contains(r, ClientHsExpected(k))
              /\ k = 3 => ~StartsWith(r, <<"w">>)
              /\ k = 5 => ~HasCapabilityToken(r)}
    ELSE ClientHandshakeReplies

PlainReply(k) ==
    CASE k = 1 -> R_whoareyou
      [] k = 2 -> R_okpassword
      [] k = 3 -> R_ok
      [] k = 4 -> R_nocsr_ok
      [] k = 5 -> R_ecb_ok
      [] k = 6 -> R_ece_ok
      [] OTHER -> NoData

ServerReplies(srv, k) ==
    CASE srv = "any" -> ClientHandshakeReplies
      [] srv = "script" -> ScriptReplies(k)
      [] srv = "plain" -> {PlainReply(k)}

\* How one raw_read() can end: the text it returns (NoData when its select
\* timed out) and whether it found the peer closed (a zero-length read,
\* which calls teardown_socket(); the replies of the model are shorter than
\* bufsize, so nothing was read before it).
RawReadOutcomes(srv, k) ==
    {[data |-> r, closed |-> FALSE] : r \in ServerReplies(srv, k)}
        \cup (IF srv = "any" THEN {[data |-> NoData, closed |-> TRUE]} ELSE {})

\* Client.setup_socket() with no socket: what it raises and whether
\* self._socket is set then (the text of Daemon.setup_socket).
ClientSetupOutcomes(srv) ==
    IF srv = "any" THEN SetupOutcomes ELSE {o \in SetupOutcomes : o.exc = "none"}

\* client.setup_socket()
ClientSetupSocket(srv) ==
    /\ c_pc = "idle"
    /\ Called("setup_socket")
    /\ IF c_socket
       THEN /\ c_exc' = "none"
            /\ UNCHANGED <<c_socket, c_connected, net, peer_closed, server_msg>>
       ELSE \E o \in ClientSetupOutcomes(srv) :
            /\ c_exc' = o.exc
            /\ c_socket' = o.sock
            /\ c_connected' = FALSE
            /\ net' = <<>>
            /\ peer_closed' = FALSE
            /\ server_msg' = <<>>
    /\ c_ts_last_connect_attempt' = IF c_socket THEN c_ts_last_connect_attempt ELSE c_now
    /\ UNCHANGED <<c_in_flight, c_pc, c_step, c_data, c_io, c_buf, recvHist>>
    /\ UNCHANGED <<codecRest, notConnVars, c_bufsize, c_now, c_ts_last_query, c_sent,
                   laterVars>>

\* client.connect() is called: the two tests at its head.
ClientConnectEnter ==
    /\ c_pc = "idle"
    /\ Called("connect")
    /\ c_io' = <<>>
    /\ c_data' = NoData
    /\ IF ~c_socket
       THEN c_exc' = "IOError: No socket" /\ UNCHANGED <<c_pc, c_step>>
       ELSE IF c_connected
       THEN c_exc' = "Exception: Already connected" /\ UNCHANGED <<c_pc, c_step>>
       ELSE c_exc' = "none" /\ c_pc' = "connect" /\ c_step' = 1
    /\ UNCHANGED <<c_socket, c_connected, c_in_flight, net, peer_closed, server_msg, c_buf>>
    /\ UNCHANGED recvHist
    /\ UNCHANGED notReadVars

\* The payload of the command each step writes (types.py:54 for the
\* version, the cname and password of the model's configuration).
ClientHsCommand(k) ==
    CASE k = 1 -> "hello:2.1.18"
      [] k = 2 -> "burp"
      [] k = 3 -> "abcdefgh"
      [] k = 4 -> "nocsr"
      [] k = 5 -> "extra_comms_begin"
      [] k = 6 -> "extra_comms_end"
      [] k = 7 -> "j:pretty-print-off"

\* Variant of ClientReplyAccepted: the reply is compared with the expected
\* text, not searched for it.
ClientReplyAcceptedWhole(k, d) == d = ClientHsExpected(k)

\* `data and '<expected>' in data`
ClientReplyAccepted(k, d) == d # NoData /\ Contains(d, ClientHsExpected(k))

\* Variant of ClientCapabilityAcks: msg is acknowledged whatever the reply
\* holds.
ClientCapabilityAcksAlwaysMsg(d) ==
    (IF Contains(d, T_counters_json) THEN <<"counters_json ok">> ELSE <<>>)
        \o (IF Contains(d, T_uname) THEN <<"uname=Linux">> ELSE <<>>)
        \o <<"msg">>

\* client.py:297-302: the capability acks the extra_comms_begin reply d asks
\* for, in the order they are written.
ClientCapabilityAcks(d) ==
    (IF Contains(d, T_counters_json) THEN <<"counters_json ok">> ELSE <<>>)
        \o (IF Contains(d, T_uname) THEN <<"uname=Linux">> ELSE <<>>)
        \o (IF Contains(d, T_msg) THEN <<"msg">> ELSE <<>>)

\* The events of what step k writes before its read, d being the reply of
\* the step before.
ClientHsWrites(k, d) ==
    LET texts == IF k = 6 THEN ClientCapabilityAcks(d) \o <<ClientHsCommand(6)>>
                 ELSE <<ClientHsCommand(k)>>
    IN  [i \in DOMAIN texts |-> [op |-> "write", text |-> texts[i]]]

ReadEvent(d) == [op |-> "read", data |-> d]

\* connect() raises exc; connect() goes on to step k.
ClientConnectRaised(exc) ==
    /\ c_pc' = "idle"
    /\ c_step' = 0
    /\ c_exc' = exc

ClientConnectGoesOn(k) ==
    /\ c_pc' = "connect"
    /\ c_step' = k
    /\ c_exc' = "none"

\* The socket after the raw_read() that ended as rd.
RawReadSocket(rd) ==
    IF rd.closed
    THEN SetClientSelf(ClientTeardownSocket(ClientSelf).self)
    ELSE UNCHANGED <<c_connected, c_in_flight, c_buf, c_socket>>

connectFrame == <<c_op, c_prev, net, peer_closed, server_msg, recvHist>>

\* Steps 1, 2, 4, 5 and 6: write the command (step 6: the capability acks
\* first), raw_read() the reply, raise IOError unless it holds the expected
\* text.  write_command raises IOError when the socket is gone.
ClientConnectStep(k, srv) ==
    /\ c_pc = "connect"
    /\ c_step = k
    /\ k \in {1, 2, 4, 5, 6}
    /\ IF ~c_socket
       THEN /\ ClientConnectRaised("IOError: No socket")
            /\ UNCHANGED <<c_io, c_data, c_connected, c_in_flight, c_buf, c_socket>>
       ELSE \E rd \in RawReadOutcomes(srv, k) :
            /\ c_io' = c_io \o ClientHsWrites(k, c_data) \o <<ReadEvent(rd.data)>>
            /\ c_data' = rd.data
            /\ RawReadSocket(rd)
            /\ IF ClientReplyAccepted(k, rd.data)
               THEN ClientConnectGoesOn(k + 1)
               ELSE ClientConnectRaised("IOError")
    /\ UNCHANGED <<connectFrame, notReadVars>>

\* Step 3: write the password and raw_read(); a reply starting with w is a
\* warning, logged, and the reply is read again.
ClientConnectPassword(srv) ==
    /\ c_pc = "connect"
    /\ c_step = 3
    /\ IF ~c_socket
       THEN /\ ClientConnectRaised("IOError: No socket")
            /\ UNCHANGED <<c_io, c_data, c_connected, c_in_flight, c_buf, c_socket>>
       ELSE \E r1 \in RawReadOutcomes(srv, 3) :
            IF r1.data # NoData /\ StartsWith(r1.data, <<"w">>)
            THEN \E r2 \in RawReadOutcomes(srv, 3) :
                 /\ c_io' = c_io \o ClientHsWrites(3, c_data)
                                \o <<ReadEvent(r1.data), ReadEvent(r2.data)>>
                 /\ c_data' = r2.data
                 /\ RawReadSocket(r2)
                 /\ IF ClientReplyAccepted(3, r2.data)
                    THEN ClientConnectGoesOn(4)
                    ELSE ClientConnectRaised("IOError")
            ELSE /\ c_io' = c_io \o ClientHsWrites(3, c_data) \o <<ReadEvent(r1.data)>>
                 /\ c_data' = r1.data
                 /\ RawReadSocket(r1)
                 /\ IF ClientReplyAccepted(3, r1.data)
                    THEN ClientConnectGoesOn(4)
                    ELSE ClientConnectRaised("IOError")
    /\ UNCHANGED <<connectFrame, notReadVars>>

\* Step 7: write j:pretty-print-off and raw_read(); what is read is dropped.
ClientConnectPrettyPrintOff(srv) ==
    /\ c_pc = "connect"
    /\ c_step = 7
    /\ IF ~c_socket
       THEN /\ ClientConnectRaised("IOError: No socket")
            /\ UNCHANGED <<c_io, c_connected, c_in_flight, c_buf, c_socket>>
       ELSE \E rd \in RawReadOutcomes(srv, 7) :
            /\ c_io' = c_io \o ClientHsWrites(7, c_data) \o <<ReadEvent(rd.data)>>
            /\ RawReadSocket(rd)
            /\ ClientConnectGoesOn(8)
    /\ UNCHANGED c_data
    /\ UNCHANGED <<connectFrame, notReadVars>>

\* Variant of ClientConnectFinalRead: a second read that times out is an
\* error.
ClientConnectFinalReadChecked(srv) ==
    /\ c_pc = "connect"
    /\ c_step = 8
    /\ IF ~c_socket
       THEN /\ ClientConnectRaised("IOError: No socket")
            /\ UNCHANGED <<c_io, c_connected, c_in_flight, c_buf, c_socket>>
       ELSE \E rd \in RawReadOutcomes(srv, 8) :
            /\ c_io' = Append(c_io, ReadEvent(rd.data))
            /\ c_pc' = "idle"
            /\ c_step' = 0
            /\ c_exc' = IF rd.data = NoData THEN "IOError" ELSE "none"
            /\ IF rd.closed
               THEN SetClientSelf(ClientTeardownSocket(ClientSelf).self)
               ELSE /\ c_connected' = (rd.data # NoData)
                    /\ UNCHANGED <<c_socket, c_in_flight, c_buf>>
    /\ UNCHANGED c_data
    /\ UNCHANGED <<connectFrame, notReadVars>>

\* Step 8: the second raw_read(), dropped as well; then
\* self._connected = True and connect() returns.  A zero-length read here
\* has called teardown_socket() before that.
ClientConnectFinalRead(srv) ==
    /\ c_pc = "connect"
    /\ c_step = 8
    /\ IF ~c_socket
       THEN /\ ClientConnectRaised("IOError: No socket")
            /\ UNCHANGED <<c_io, c_connected, c_in_flight, c_buf, c_socket>>
       ELSE \E rd \in RawReadOutcomes(srv, 8) :
            /\ c_io' = Append(c_io, ReadEvent(rd.data))
            /\ c_pc' = "idle"
            /\ c_step' = 0
            /\ c_exc' = "none"
            /\ IF rd.closed
               THEN SetClientSelf([ClientTeardownSocket(ClientSelf).self
                                       EXCEPT !.connected = TRUE])
               ELSE c_connected' = TRUE /\ UNCHANGED <<c_socket, c_in_flight, c_buf>>
    /\ UNCHANGED c_data
    /\ UNCHANGED <<connectFrame, notReadVars>>

\* Client.connect() against the server srv.
ClientConnect(srv) ==
    \/ \E k \in {1, 2, 4, 5, 6} : ClientConnectStep(k, srv)
    \/ ClientConnectPassword(srv)
    \/ ClientConnectPrettyPrintOff(srv)
    \/ ClientConnectFinalRead(srv)

\* setup_socket(), connect() and teardown_socket() against any server.
NextConnect ==
    \/ ClientSetupSocket("any")
    \/ ClientConnectEnter
    \/ ClientConnect("any")
    \/ ClientTeardown

\* setup_socket() and connect() against the scripted server.
NextScripted ==
    \/ ClientSetupSocket("script")
    \/ ClientConnectEnter
    \/ ClientConnect("script")

\* ------------------------------- Client: read() on the live connection

\* read() is called with its default bufsize (client.py:205) and, in the
\* model, with a small one.
DefaultBufSize == 2048

SmallBufSize == 7

BufSizes == {SmallBufSize, DefaultBufSize}

MaxCut == 6

\* More frames of the server: a length field with a sign.
F_plus == <<"w", "+", "0", "0", "2", "h", "i">>

\* What the server sends in one go: one frame, or frames back to back.
ClientServerMessages ==
    {F_1c, F_sentinel, F_warning, F_badtype, F_badhex, F_plus,
     F_warning \o F_other, F_warning \o F_sentinel}

\* The server sends a message on the established connection, in one TLS
\* record or cut in two.  Bounds of the model: it sends when the client
\* has read all it sent before and holds nothing in its buffer, and the
\* first of two records has at most MaxCut characters.
ServerSend ==
    /\ c_pc = "idle"
    /\ c_socket
    /\ c_connected
    /\ ~peer_closed
    /\ net = <<>>
    /\ c_buf = <<>>
    /\ \E m \in ClientServerMessages, cut \in 0..MaxCut :
        /\ cut < Len(m)
        /\ net' = IF cut = 0 THEN <<m>>
                  ELSE <<SubSeq(m, 1, cut), SubSeq(m, cut + 1, Len(m))>>
        /\ server_msg' = m
    /\ c_decoded' = <<>>
    /\ c_dispatched' = <<>>
    /\ c_raised' = {}
    /\ UNCHANGED <<c_socket, c_connected, c_in_flight, c_pc, c_step, c_data, c_io, c_op,
                   c_prev, c_exc, peer_closed, c_buf>>
    /\ UNCHANGED notReadVars

\* The server closes the connection.
ServerClose ==
    /\ c_pc = "idle"
    /\ c_socket
    /\ ~peer_closed
    /\ peer_closed' = TRUE
    /\ UNCHANGED <<c_socket, c_connected, c_in_flight, c_pc, c_step, c_data, c_io, c_op,
                   c_prev, c_exc, net, server_msg, c_buf, recvHist>>
    /\ UNCHANGED notReadVars

Min(a, b) == IF a <= b THEN a ELSE b

\* client.read(bufsize), called when select() reports the socket readable:
\* a record is waiting or the peer has closed.  socket.read(bufsize)
\* returns what is left of the first waiting record, bufsize bytes of it at
\* most; nothing when the peer has closed and no record waits.
ClientReadNet(bufsize) ==
    /\ c_pc = "idle"
    /\ ~c_socket \/ net # <<>> \/ peer_closed
    /\ Called("read")
    /\ c_bufsize' = bufsize
    /\ IF ~c_socket
       THEN /\ c_exc' = "IOError: No socket"
            /\ r_exc' = "IOError: No socket"
            /\ UNCHANGED <<c_socket, c_connected, c_in_flight, c_buf, net, peer_closed,
                           frame, clientVars, last_message, recvHist>>
       ELSE IF net = <<>>
       THEN \* reclen == 0
            /\ SetClientSelf(ClientTeardownSocket(ClientSelf).self)
            /\ c_exc' = ClientTeardownSocket(ClientSelf).exc
            /\ r_exc' = ClientTeardownSocket(ClientSelf).exc
            /\ net' = <<>>
            /\ peer_closed' = FALSE
            /\ UNCHANGED <<frame, clientVars, last_message, recvHist>>
       ELSE LET reclen == Min(bufsize, Len(Head(net)))
                rec_data == SubSeq(Head(net), 1, reclen)
                buf == c_buf \o rec_data
                st == ClientHandleData([clients |-> c_clients, seen |-> {},
                                        parse_errors |-> c_parse_errors, exc |-> "none",
                                        mtype |-> "", mdata |-> <<>>,
                                        message |-> NoMessage], buf)
            IN  /\ net' = IF reclen = Len(Head(net)) THEN Tail(net)
                          ELSE <<SubSeq(Head(net), reclen + 1, Len(Head(net)))>> \o Tail(net)
                /\ UNCHANGED <<c_socket, c_connected, peer_closed>>
                /\ IF reclen < bufsize
                   THEN /\ st.parse_errors <= MaxApplyErrors
                        /\ c_buf' = IF st.exc = "none" THEN <<>> ELSE buf
                        /\ c_in_flight' = IF st.exc = "none" THEN FALSE ELSE c_in_flight
                        /\ c_exc' = st.exc
                        /\ r_exc' = st.exc
                        /\ frame' = [mtype |-> st.mtype, mdata |-> st.mdata]
                        /\ c_clients' = st.clients
                        /\ c_parse_errors' = st.parse_errors
                        /\ last_message' =
                               IF st.message = NoMessage THEN last_message ELSE st.message
                        /\ c_decoded' =
                               IF st.exc = "none" /\ st.mtype # ""
                               THEN Append(c_decoded, [mtype |-> st.mtype, mdata |-> st.mdata])
                               ELSE c_decoded
                        /\ c_dispatched' =
                               IF st.message = NoMessage THEN c_dispatched
                               ELSE Append(c_dispatched, st.message)
                        /\ c_raised' =
                               IF st.exc = "none" THEN c_raised ELSE c_raised \cup {st.exc}
                   ELSE /\ c_buf' = buf
                        /\ c_exc' = "none"
                        /\ r_exc' = "none"
                        /\ UNCHANGED <<c_in_flight, frame, clientVars, last_message,
                                       recvHist>>
    /\ UNCHANGED <<c_pc, c_step, c_data, c_io, server_msg>>
    /\ UNCHANGED <<wire, w_args, w_exc, apply_exc>>
    /\ UNCHANGED <<daemonVars, parserVars, extVars>>

\* The Client against the plain server: set-up, handshake, then the
\* server's messages, its close, and the teardown.
NextReceive ==
    \/ ClientSetupSocket("plain")
    \/ ClientConnectEnter
    \/ ClientConnect("plain")
    \/ ServerSend
    \/ ServerClose
    \/ \E bufsize \in BufSizes : ClientReadNet(bufsize)
    \/ ClientTeardown

\* ------------ Client.parse_message pass by pass, and Client.collect

\* A client entry whose one backup carries both flags.
O_burp_both ==
    [name |-> "burp", run_status |-> "running", protocol |-> 1,
     backups |-> <<[number |-> 6, timestamp |-> 11, flags |-> <<"current", "working">>]>>]

\* The decoded messages given to parse_message here: clients arrays of up
\* to MaxEntries valid entries, one with the entry above, burp alone with
\* no backups and with two current ones, one with an invalid entry, and
\* the message without a clients array.
ScrapeEntries == {O_asdf, O_burp, O_testclient, O_burp_working}

ScrapeSnapshots ==
    {[clients |-> e] : e \in UNION {[1..n -> ScrapeEntries] : n \in 0..MaxEntries}}
        \cup {[clients |-> <<O_burp_both>>], [clients |-> <<O_burp_empty>>],
              [clients |-> <<O_burp_two>>], O_bad1, O_other}

NoScrape == [taken |-> FALSE]

InitStep ==
    /\ a_pc = "idle"
    /\ a_msg = NoMessage
    /\ a_idx = 0
    /\ a_seen = {}
    /\ a_before = <<>>
    /\ scraped = NoScrape

\* Variant of HasWorking: the working flag counts whatever else is there.
HasWorkingAnyFlags(backups) ==
    \E i \in DOMAIN backups : InList("working", backups[i].flags)

\* has_working after `for b in clnt.backups` (client.py:125-131): the
\* working flag is looked at only on a backup that is not current.
HasWorking(backups) ==
    \E i \in DOMAIN backups :
        /\ ~InList("current", backups[i].flags)
        /\ InList("working", backups[i].flags)

\* The samples collect() adds for one client: one backup number and
\* timestamp per current backup, the in-progress indicator and the two
\* run-status samples (group_by_label not set).
ClientSamples(clnt) ==
    LET Current(b) == InList("current", b.flags)
        cur == SelectSeq(clnt.backups, Current)
    IN  [name |-> clnt.name,
         backup_num |-> [i \in DOMAIN cur |-> cur[i].number],
         backup_timestamp |-> [i \in DOMAIN cur |-> cur[i].timestamp],
         has_in_progress |-> IF HasWorking(clnt.backups) THEN 1 ELSE 0,
         running |-> clnt.run_status = "running",
         idle |-> clnt.run_status = "idle"]

\* Client.collect() on the fields as they are: the families it yields.
Collect(clients, parse_errors, connected, ts_last_query) ==
    [burp_last_contact |-> ts_last_query,
     burp_up |-> IF connected THEN 1 ELSE 0,
     burp_parse_errors |-> parse_errors,
     burp_clients |-> Len(clients),
     clients |-> [i \in DOMAIN clients |-> ClientSamples(clients[i])]]

\* client.parse_message(msg) is called: the test for the clients key.
ClientParseBegin ==
    /\ a_pc = "idle"
    /\ \E msg \in ScrapeSnapshots :
        /\ last_message' = msg
        /\ a_msg' = msg
        /\ IF "clients" \in DOMAIN msg
           THEN /\ c_parse_errors
                     + Cardinality({i \in DOMAIN msg.clients : ~ValidClient(msg.clients[i])})
                        <= MaxApplyErrors
                /\ a_pc' = "for"
                /\ a_idx' = 1
                /\ apply_exc' = "none"
           ELSE /\ apply_exc' = "Exception: Unknown data"
                /\ UNCHANGED <<a_pc, a_idx>>
    /\ a_seen' = {}
    /\ a_before' = c_clients
    /\ scraped' = NoScrape
    /\ UNCHANGED <<daemonVars, parserVars, clientVars, codecVars, connVars, timeVars,
                   blockVars>>

\* One pass of the loop over message['clients'].
ClientParseEntry ==
    /\ a_pc = "for"
    /\ a_idx <= Len(a_msg.clients)
    /\ LET st == ClientEntry([clients |-> c_clients, seen |-> a_seen,
                              parse_errors |-> c_parse_errors, exc |-> "none"],
                             a_msg.clients[a_idx])
       IN  /\ c_clients' = st.clients
           /\ c_parse_errors' = st.parse_errors
           /\ a_seen' = st.seen
    /\ a_idx' = a_idx + 1
    /\ UNCHANGED <<a_pc, a_msg, a_before, scraped>>
    /\ UNCHANGED <<daemonVars, parserVars, applyVars, codecVars, connVars, timeVars,
                   blockVars>>

\* The statement after the loop: the names not seen are dropped.
ClientParseCleanup ==
    /\ a_pc = "for"
    /\ a_idx > Len(a_msg.clients)
    /\ c_clients' = ClientCleanup([clients |-> c_clients, seen |-> a_seen,
                                   parse_errors |-> c_parse_errors, exc |-> "none"]).clients
    /\ a_pc' = "idle"
    /\ UNCHANGED <<c_parse_errors, a_msg, a_idx, a_seen, a_before, scraped>>
    /\ UNCHANGED <<daemonVars, parserVars, applyVars, codecVars, connVars, timeVars,
                   blockVars>>

\* The metrics server's thread calls collect() (registry.collect()), at
\* any point of the event loop's thread: no lock is taken by either.
ClientCollect ==
    /\ ~scraped.taken
    /\ scraped' = [taken |-> TRUE,
                   table |-> c_clients,
                   families |-> Collect(c_clients, c_parse_errors, c_connected,
                                        c_ts_last_query)]
    /\ UNCHANGED <<a_pc, a_msg, a_idx, a_seen, a_before>>
    /\ UNCHANGED <<daemonVars, parserVars, clientVars, applyVars, codecVars, connVars,
                   timeVars, blockVars>>

NextScrape ==
    \/ ClientParseBegin
    \/ ClientParseEntry
    \/ ClientParseCleanup
    \/ ClientCollect

\* ------------ Daemon.run, one blocking call after another

\* The bufsize of read() here, the bytes the server can have in flight,
\* and the length of data from which it is no longer counted.
LoopBufSize == 2

MaxAvail == 4

MaxLoopData == 6

notBlockVars ==
    <<daemonVars, parserVars, clientVars, applyVars, codecVars, connVars, timeVars,
      stepVars>>

InitLoop ==
    /\ l_pc = "head"
    /\ l_connected = FALSE
    /\ l_stop = FALSE
    /\ l_avail = 0
    /\ l_data = 0

\* `while not self._stop` finds the flag set: teardown_socket().
LoopExit ==
    /\ l_pc = "head"
    /\ l_stop
    /\ l_pc' = "exited"
    /\ l_connected' = FALSE
    /\ l_avail' = 0
    /\ UNCHANGED <<l_stop, l_data>>
    /\ UNCHANGED notBlockVars

\* The head of an iteration: not connected, setup_socket() is called
\* (when the cool-down has not elapsed, time.sleep(60) returns to the head
\* instead); connected, read() is called.
LoopHead ==
    /\ l_pc = "head"
    /\ ~l_stop
    /\ l_pc' = IF l_connected THEN "select" ELSE "tcp_connect"
    /\ l_data' = 0
    /\ UNCHANGED <<l_connected, l_stop, l_avail>>
    /\ UNCHANGED notBlockVars

\* sock.connect() on a socket set blocking, no timeout set
\* (daemon.py:96-98): it returns when the server accepts or refuses.
ServerAccepts ==
    /\ l_pc = "tcp_connect"
    /\ l_pc' = "wrap_socket"
    /\ UNCHANGED <<l_connected, l_stop, l_avail, l_data>>
    /\ UNCHANGED notBlockVars

ServerRefuses ==
    /\ l_pc = "tcp_connect"
    /\ l_pc' = "head"
    /\ UNCHANGED <<l_connected, l_stop, l_avail, l_data>>
    /\ UNCHANGED notBlockVars

\* context.wrap_socket() does the TLS handshake on the blocking socket
\* (daemon.py:109): it returns when the server has done its part.  The
\* reads of connect() that follow wait 10 s each at most, and the
\* connection is up.
ServerHandshakes ==
    /\ l_pc = "wrap_socket"
    /\ l_pc' = "head"
    /\ l_connected' = TRUE
    /\ l_avail' = 0
    /\ UNCHANGED <<l_stop, l_data>>
    /\ UNCHANGED notBlockVars

\* The server sends k bytes.
ServerSendsBytes ==
    /\ l_connected
    /\ \E k \in 1..LoopBufSize :
        /\ l_avail + k <= MaxAvail
        /\ l_avail' = l_avail + k
    /\ UNCHANGED <<l_pc, l_connected, l_stop, l_data>>
    /\ UNCHANGED notBlockVars

\* select() of read() returns empty after timeout_seconds: break.
LoopSelectTimeout ==
    /\ l_pc = "select"
    /\ l_avail = 0
    /\ l_pc' = "head"
    /\ UNCHANGED <<l_connected, l_stop, l_avail, l_data>>
    /\ UNCHANGED notBlockVars

\* select() of read() finds the socket readable: socket.read(bufsize);
\* fewer than bufsize bytes break the loop, bufsize bytes go round it.
LoopRead ==
    /\ l_pc = "select"
    /\ l_avail > 0
    /\ LET reclen == IF l_avail < LoopBufSize THEN l_avail ELSE LoopBufSize
       IN  /\ l_avail' = l_avail - reclen
           /\ l_data' = IF l_data + reclen < MaxLoopData THEN l_data + reclen
                         ELSE MaxLoopData
           /\ l_pc' = IF reclen < LoopBufSize THEN "head" ELSE "select"
    /\ UNCHANGED <<l_connected, l_stop>>
    /\ UNCHANGED notBlockVars

\* signal_handler(SIGTERM)
LoopSigterm ==
    /\ l_pc # "exited"
    /\ ~l_stop
    /\ l_stop' = TRUE
    /\ UNCHANGED <<l_pc, l_connected, l_avail, l_data>>
    /\ UNCHANGED notBlockVars

\* The steps the daemon takes by itself, and those that wait for the server
\* or a signal.
LoopProgram ==
    \/ LoopExit
    \/ LoopHead
    \/ LoopSelectTimeout
    \/ LoopRead

NextLoop ==
    \/ LoopProgram
    \/ ServerAccepts
    \/ ServerRefuses
    \/ ServerHandshakes
    \/ ServerSendsBytes
    \/ LoopSigterm

\* ------------ Client: refresh, write_command on the connection

\* The clock stops here, and so many commands are recorded.
MaxClientTime == 120

MaxSent == 2

\* Time passes between two calls.
TickSteps == {20, 40}

ClientTick ==
    /\ c_pc = "idle"
    /\ \E dt \in TickSteps :
        /\ c_now + dt <= MaxClientTime
        /\ c_now' = c_now + dt
    /\ UNCHANGED <<c_ts_last_query, c_ts_last_connect_attempt, c_sent>>
    /\ UNCHANGED <<connVars, codecVars, notConnVars, laterVars>>

\* socket.write(text) at the end of write_command, recorded.
Sent(text) ==
    IF text = <<>> THEN c_sent ELSE Append(c_sent, [t |-> c_now, text |-> text])

\* client.write_command(cmd, payload) called from outside.
ClientSend(cmd, payload) ==
    /\ c_pc = "idle"
    /\ Called("write_command")
    /\ c_exc' = WriteCommand(c_socket, cmd, payload).exc
    /\ c_sent' = Sent(WriteCommand(c_socket, cmd, payload).written)
    /\ Len(c_sent') <= MaxSent
    /\ UNCHANGED <<c_now, c_ts_last_query, c_ts_last_connect_attempt>>
    /\ UNCHANGED <<c_socket, c_connected, c_in_flight, c_pc, c_step, c_data, c_io,
                   net, peer_closed, server_msg, recvHist, c_bufsize>>
    /\ UNCHANGED <<codecVars, notConnVars, laterVars>>

\* Variant of RefreshDue: the connected flag is not looked at.
RefreshDueUnconnected ==
    c_ts_last_query < c_now - refresh_interval_seconds

\* The test at the head of refresh() (client.py:77).
RefreshDue ==
    /\ c_connected
    /\ c_ts_last_query < c_now - refresh_interval_seconds

\* client.refresh(): the timestamp is set before write_command is called.
ClientRefresh ==
    /\ c_pc = "idle"
    /\ Called("refresh")
    /\ IF RefreshDue /\ ~c_in_flight
       THEN /\ c_ts_last_query' = c_now
            /\ c_exc' = WriteCommand(c_socket, <<"c">>, <<"c", ":">>).exc
            /\ c_sent' = Sent(WriteCommand(c_socket, <<"c">>, <<"c", ":">>).written)
       ELSE /\ c_exc' = "none"
            /\ UNCHANGED <<c_ts_last_query, c_sent>>
    /\ Len(c_sent') <= MaxSent
    /\ UNCHANGED <<c_now, c_ts_last_connect_attempt>>
    /\ UNCHANGED <<c_socket, c_connected, c_in_flight, c_pc, c_step, c_data, c_io,
                   net, peer_closed, server_msg, recvHist, c_bufsize>>
    /\ UNCHANGED <<codecVars, notConnVars, laterVars>>

NextRefresh ==
    \/ ClientSetupSocket("plain")
    \/ ClientConnectEnter
    \/ ClientConnect("plain")
    \/ ClientTeardown
    \/ ClientTick
    \/ ClientRefresh
    \/ \E cmd \in {<<"c">>, <<"c", "w">>} : ClientSend(cmd, <<"c", ":">>)

\* ---------------------------------------------------- the specifications

vars == <<daemonVars, notDaemonVars>>

Init ==
    /\ InitDaemon
    /\ InitParser
    /\ InitClient
    /\ InitApply
    /\ InitCodec
    /\ InitConn
    /\ InitTime
    /\ InitStep
    /\ InitLoop

\* The daemon as cli() runs it.
Spec == Init /\ [][NextDaemon]_vars

\* The daemon, with process interrupts arriving inside the loop.
SpecInterrupt == Init /\ [][NextInterrupt]_vars

\* Parser.parse_message called with one snapshot after another.
SpecParser == Init /\ [][NextParser]_vars

\* Client.parse_message called with one snapshot after another.
SpecApply == Init /\ [][NextApply]_vars

\* One command written by write_command and read back by read().
SpecCodec == Init /\ [][NextCodec]_vars

\* Client.setup_socket, connect and teardown_socket against any server.
SpecConnect == Init /\ [][NextConnect]_vars

\* The established connection: the server's messages read by read().
SpecReceive == Init /\ [][NextReceive]_vars

\* parse_message in the event loop's thread, collect() in the metrics
\* server's.
SpecScrape == Init /\ [][NextScrape]_vars

\* The loop of run() against any server: the daemon takes every step it
\* can take by itself; nothing is assumed of the server.
SpecLoop == Init /\ [][NextLoop]_vars /\ WF_vars(LoopProgram)

\* The connection as time passes: refresh() and write_command().
SpecRefresh == Init /\ [][NextRefresh]_vars

\* Client.setup_socket and connect against the scripted server; a call in
\* progress goes on (every raw_read() returns, with a reply or at its
\* timeout of 10 s).
SpecScripted == Init /\ [][NextScripted]_vars /\ WF_vars(NextScripted)

\* ================================================================ claims

Last(seq) == seq[Len(seq)]

\* The seven handshake commands of the specification's table, in order.
HandshakeOrder ==
    <<"hello:2.1.28", "burp", "abcdefgh", "nocsr", "extra_comms_begin", "extra_comms_end",
      "j:pretty-print-off">>

\* The reply substring the table expects before the next command.
ExpectedReply ==
    <<T_whoareyou, T_okpassword, T_ok, T_nocsr_ok, T_extra_comms_begin_ok,
      T_extra_comms_end_ok>>

IsHandshakeCommand(x) == \E i \in 1..7 : HandshakeOrder[i] = x

\* The handshake commands among the payloads written (capability acks and
\* snapshot requests left out).
HandshakeSent(log) == SelectSeq(log, IsHandshakeCommand)

IsPrefix(a, b) == Len(a) <= Len(b) /\ SubSeq(b, 1, Len(a)) = a

\* C1, state part: the handshake commands are written in the table's order,
\* and while the connected flag is true all seven have been written.
C1_OrderInv ==
    /\ IsPrefix(HandshakeSent(sent), HandshakeOrder)
    /\ d_connected => HandshakeSent(sent) = HandshakeOrder

\* C1, step part: a step that writes handshake command k + 1 is taken only
\* when the reply read last holds the expected substring of step k.
C1_ReplyBeforeNext ==
    \A k \in 1..6 :
        (/\ Len(HandshakeSent(sent')) = k + 1
         /\ Len(HandshakeSent(sent)) = k)
            => (data # NoData /\ Contains(data, ExpectedReply[k]))

\* C1: the connected flag becomes true only after hello, cname, password,
\* nocsr, extra_comms_begin, extra_comms_end and j:pretty-print-off were
\* sent in this order, each only after the expected reply substring of the
\* step before it was observed.
C1_HandshakeOrder == [](C1_OrderInv) /\ [][C1_ReplyBeforeNext]_vars

\* C1 witness: a connection became ready after the seven commands.
C1_Witness ==
    d_connected /\ d_socket /\ pc = "loop" /\ HandshakeSent(sent) = HandshakeOrder

\* C2: at each of the steps 1 to 6, a reply that is empty or lacks the
\* expected substring makes connect() raise: the handshake is left with
\* the connected flag false and only this step's command written; and
\* outside a handshake, while not connected, nothing more is written on
\* that connection attempt.
C2_MismatchAborts ==
    [][/\ \A k \in 1..6 :
            (/\ pc = "connect"
             /\ step = k
             /\ sent' # sent
             /\ (data' = NoData \/ ~Contains(data', ExpectedReply[k])))
                => (/\ pc' = "loop"
                    /\ step' = 0
                    /\ ~d_connected'
                    /\ HandshakeSent(sent') = SubSeq(HandshakeOrder, 1, k))
       /\ (pc # "connect" /\ ~d_connected) => (sent' = sent \/ sent' = <<>>)]_vars

\* C2 witness: the handshake failed at step 2 on a reply without okpassword.
C2_Witness ==
    /\ pc = "loop"
    /\ ~d_connected
    /\ sent = <<"hello:2.1.28", "burp">>
    /\ data = R_error

\* C5 (as claimed): on one connection at most one snapshot request is
\* outstanding: none is sent while the reply to the one before it has not
\* been received completely and the connection has not been torn down.
C5_NoOverlappingRequests == awaiting <= 1

\* C6: after two consecutive failed open() attempts that lie within one
\* cool-down window of each other, the next attempt is made only when the
\* cool-down has elapsed since the second of them.
C6_Backoff ==
    \A i \in 3..Len(attempts) :
        (/\ attempts[i - 2].exc # "none"
         /\ attempts[i - 1].exc # "none"
         /\ attempts[i - 1].t - attempts[i - 2].t <= ConnectCoolDown)
            => attempts[i].t - attempts[i - 1].t > ConnectCoolDown

\* C6 witness: two failed attempts within one window (the one of cli() and
\* the first of run()), and a third attempt made.
C6_Witness ==
    /\ Len(attempts) >= 3
    /\ attempts[1].exc # "none"
    /\ attempts[2].exc # "none"
    /\ attempts[2].t - attempts[1].t <= ConnectCoolDown

\* C7: inside the event loop, a refused open() and a failed handshake are
\* caught: the socket is torn down, the connection is not connected, no
\* exception leaves the loop, and the loop is back at its head, where the
\* attempt is made again once the cool-down has elapsed.
C7_FailureCaughtInLoop ==
    /\ [][/\ (/\ pc = "loop"
              /\ Len(attempts') > Len(attempts)
              /\ Last(attempts').exc = "ConnectionRefusedError")
                 => (pc' = "loop" /\ ~d_socket' /\ ~d_connected' /\ raised' = "none")
          /\ (pc = "connect" /\ caller = "run" /\ pc' # "connect" /\ ~d_connected')
                 => (pc' = "loop" /\ ~d_socket' /\ raised' = "none")]_vars
    /\ []((/\ pc = "loop"
           /\ ~d_stop
           /\ ~d_connected
           /\ now - d_ts_last_connect_attempt > ConnectCoolDown)
              => ENABLED RunAttempt)

\* C7 witness: an attempt of the loop was refused and, more than the
\* cool-down later, the loop made the next attempt.
C7_Witness ==
    /\ Len(attempts) >= 3
    /\ attempts[2].exc = "ConnectionRefusedError"
    /\ attempts[3].t - attempts[2].t > ConnectCoolDown

\* The exceptions handle_data and parse_message raise for a malformed frame
\* and for a snapshot without a clients array.
ProtocolErrors ==
    {"IOError: Unexpected code", "Exception: Message too short",
     "Exception: Invalid length", "Exception: Expected payload length", "JSONDecodeError",
     "Exception: Unexpected message type", "Exception: Unknown data"}

\* C8 (as claimed): a malformed frame or a snapshot without a clients array,
\* received on an established connection, tears the connection down and
\* leaves the event loop running.
C8_ProtocolErrorRecovered ==
    [][(pc = "loop" /\ d_connected /\ d_socket /\ raised' \in ProtocolErrors)
          => (pc' = "loop" /\ ~d_socket' /\ ~d_connected')]_vars

\* The ways open() fails at the TLS layer.
TLSErrors == {"SSLError", "Exception: No cert from peer", "CertificateError"}

\* C9 (as claimed): an open() of the event loop that fails with a TLS error
\* leaves the loop running, with the connection not connected and no socket.
C9_TLSErrorRecovered ==
    [][(/\ pc = "loop"
        /\ Len(attempts') > Len(attempts)
        /\ Last(attempts').exc \in TLSErrors)
          => (pc' = "loop" /\ ~d_socket' /\ ~d_connected')]_vars

\* The valid entries of a snapshot, and their names.
ValidIndexes(msg) == {i \in DOMAIN msg.clients : ValidClient(msg.clients[i])}

ValidNames(msg) == {msg.clients[i].name : i \in ValidIndexes(msg)}

InvalidCount(msg) == Cardinality(DOMAIN msg.clients \ ValidIndexes(msg))

\* C3 (as claimed, for Parser.parse_message): after parse_message on a
\* message that has a clients array, the table holds exactly the names of
\* the valid entries of that message.
C3_TableMatchesSnapshot ==
    [][("clients" \in DOMAIN last_message') => p_clients' = ValidNames(last_message')]_vars

\* C4: in Client.parse_message every entry that fails validation adds exactly
\* one to the parse-error counter and contributes no record to the table,
\* while parse_message returns and every valid entry of the same snapshot is
\* applied: the table holds, for each valid name, the record of the last
\* valid entry with that name.
C4_InvalidEntrySkipped ==
    [][("clients" \in DOMAIN last_message') =>
          LET entries == last_message'.clients
              valid == ValidIndexes(last_message')
          IN  /\ apply_exc' = "none"
              /\ c_parse_errors' = c_parse_errors + InvalidCount(last_message')
              /\ \A i \in DOMAIN c_clients' :
                     \E j \in valid : c_clients'[i] = ClientInfo(entries[j])
              /\ \A j \in valid :
                     (\A k \in valid : k > j => entries[k].name # entries[j].name)
                        => \E i \in DOMAIN c_clients' : c_clients'[i] = ClientInfo(entries[j])]_vars

\* C4 witness: a snapshot of an invalid burp entry followed by the valid
\* asdf was applied: one error counted, asdf alone in the table.
C4_Witness ==
    /\ last_message = [clients |-> <<O_burp_noproto, O_asdf>>]
    /\ c_parse_errors = 1
    /\ c_clients = <<ClientInfo(O_asdf)>>

\* C10 (as claimed): a command c or w written by write_command and decoded
\* by handle_data gives a frame of the same type whose payload is the
\* payload written.
C10_RoundTrip ==
    (/\ w_args.called
     /\ w_exc = "none"
     /\ w_args.cmd \in {<<"c">>, <<"w">>}
     /\ wire = <<>>)
        => (/\ r_exc = "none"
            /\ <<frame.mtype>> = w_args.cmd
            /\ frame.mdata = w_args.data)

\* The frames of ClientServerMessages that are well formed, one frame each,
\* and the frame [mtype, mdata] each of them carries.
WholeFrames == {F_1c, F_warning}

FrameOf(m) == [mtype |-> m[1], mdata |-> SubSeq(m, 6, Len(m))]

\* C11 (as claimed): a frame delivered to read() in two parts is decoded as
\* when it is delivered whole.  While the second part is still on its way,
\* no read() has raised, nothing was decoded or handed to parse_message,
\* and the buffer holds the bytes received; once both parts are read, the
\* one frame has been decoded, without an error.
C11_PartialRead ==
    /\ (/\ server_msg \in WholeFrames
        /\ Len(net) = 1
        /\ Len(net[1]) < Len(server_msg))
           => (/\ c_raised = {}
               /\ c_decoded = <<>>
               /\ c_dispatched = <<>>
               /\ c_buf \o net[1] = server_msg)
    /\ (/\ server_msg \in WholeFrames
        /\ c_socket
        /\ net = <<>>
        /\ c_buf = <<>>)
           => (/\ c_raised = {}
               /\ c_decoded = <<FrameOf(server_msg)>>)

\* This step is a read() with a bufsize larger than the server's message
\* that takes the whole message from the connection.
ReadWhole ==
    /\ net = <<server_msg>>
    /\ net' = <<>>
    /\ c_op' = "read"
    /\ c_bufsize' > Len(server_msg)

\* Two complete frames back to back, as the server sends them in
\* ClientServerMessages.
CoalescedFrames == F_warning \o F_other

\* C12 (as claimed): a read() that receives two complete frames at once,
\* in one record shorter than bufsize, decodes both, in wire order, hands the command frame to parse_message
\* and raises nothing.
C12_CoalescedFramesDecoded ==
    [][(/\ server_msg = CoalescedFrames
        /\ c_buf = <<>>
        /\ ReadWhole)
           => (/\ c_exc' = "none"
               /\ c_decoded' = <<FrameOf(F_warning), FrameOf(F_other)>>
               /\ c_dispatched' = <<O_other>>)]_vars

\* The sentinel directly after another frame.
FrameThenSentinel == F_warning \o F_sentinel

\* C13 (as claimed): a read() that receives the sentinel, alone or directly
\* after another frame, in one record shorter than bufsize, drops it: nothing is raised, nothing is handed to
\* parse_message, the sentinel is not among the decoded frames and the
\* buffer is consumed.
C13_SentinelDropped ==
    [][(/\ server_msg \in {F_sentinel, FrameThenSentinel}
        /\ c_buf = <<>>
        /\ ReadWhole)
           => (/\ c_exc' = "none"
               /\ c_dispatched' = <<>>
               /\ c_decoded' = (IF server_msg = F_sentinel THEN <<>>
                                ELSE <<FrameOf(F_warning)>>)
               /\ c_buf' = <<>>)]_vars

\* write_command was called on a Client with a socket, it returned, and
\* what it wrote has not been read back yet.
WrittenUnread ==
    /\ w_args.called
    /\ w_args.sock
    /\ w_exc = "none"
    /\ frame = NoFrame
    /\ r_exc = "none"

\* The number four digits 0-9, A-F denote; the digits are looked up in
\* "0123456789ABCDEF", so a lower-case digit denotes nothing.
UpperHexDigit(ch) == CHOOSE d \in 0..15 : HexDigits[d + 1] = ch

UpperHex4(s) ==
    (16 * 16 * 16) * UpperHexDigit(s[1]) + (16 * 16) * UpperHexDigit(s[2])
        + 16 * UpperHexDigit(s[3]) + UpperHexDigit(s[4])

\* C14: what write_command(cmd, data) hands to the socket is the command
\* character, then len(data) + 1 as four upper-case zero-padded hexadecimal
\* digits, then data, then one NUL, and nothing else.
C14_WireFormat ==
    (WrittenUnread /\ Len(w_args.data) + 1 <= MaxDeclaredLength)
        => (/\ Len(wire) = 1 + 4 + Len(w_args.data) + 1
            /\ <<wire[1]>> = w_args.cmd
            /\ \A i \in 2..5 : \E d \in 1..16 : HexDigits[d] = wire[i]
            /\ UpperHex4(SubSeq(wire, 2, 5)) = Len(w_args.data) + 1
            /\ SubSeq(wire, 6, 5 + Len(w_args.data)) = w_args.data
            /\ wire[Len(wire)] = NUL)

\* C14 witness: the hello command has been written; its length field has a
\* letter digit and leading zeros.
C14_Witness ==
    /\ WrittenUnread
    /\ w_args.cmd = <<"c">>
    /\ w_args.data = T_hello
    /\ SubSeq(wire, 1, 5) = <<"c", "0", "0", "0", "D">>

\* C15 (as claimed): write_command raises and writes nothing when the
\* payload's length + 1 exceeds 0xFFFF or the command is not exactly one
\* character.
C15_EncodeRejects ==
    (/\ w_args.called
     /\ w_args.sock
     /\ \/ Len(w_args.data) + 1 > MaxDeclaredLength
        \/ Len(w_args.cmd) # 1)
        => (w_exc # "none" /\ wire = <<>>)

\* The hexadecimal digits, of either case.
HexChars ==
    {HexDigits[d] : d \in 1..16} \cup {"a", "b", "c", "d", "e", "f"}

\* The four length characters of the buffer buf are hexadecimal digits.
ValidHexLength(buf) == \A i \in 2..5 : buf[i] \in HexChars

\* C16 (as claimed): a read() that receives, in one record shorter than
\* bufsize, a frame whose type character is neither c nor w raises the
\* 'unexpected code' error, one that receives a frame whose four length
\* characters are not hexadecimal digits raises the 'invalid length'
\* error; neither hands anything to parse_message or
\* changes the client table.
C16_BadFrameRejected ==
    [][(/\ Len(server_msg) >= 5
        /\ c_buf = <<>>
        /\ ReadWhole
        /\ server_msg[1] \notin {"c", "w"} \/ ~ValidHexLength(server_msg))
           => (/\ c_exc' = (IF server_msg[1] \notin {"c", "w"}
                            THEN "IOError: Unexpected code"
                            ELSE "Exception: Invalid length")
               /\ c_dispatched' = c_dispatched
               /\ c_clients' = c_clients)]_vars

\* C19: a read() that finds the peer closed and nothing to read (a
\* zero-length read) tears the connection down: after it the socket is
\* absent, the connected flag is false, the buffer is empty and the
\* in-flight flag is false; it hands nothing to parse_message and leaves the
\* client table alone.
C19_ZeroReadTearsDown ==
    [][(/\ c_pc = "idle"
        /\ c_socket
        /\ net = <<>>
        /\ peer_closed
        /\ c_op' = "read")
           => (/\ ~c_socket'
               /\ ~c_connected'
               /\ c_buf' = <<>>
               /\ ~c_in_flight'
               /\ c_exc' = "none"
               /\ c_dispatched' = c_dispatched
               /\ c_clients' = c_clients
               /\ last_message' = last_message)]_vars

\* C19 witness: a zero-length read has torn down a connection on which a
\* table had been built and a failed read had left bytes in the buffer.
C19_Witness ==
    /\ c_op = "read"
    /\ c_exc = "none"
    /\ ~c_socket
    /\ ~c_connected
    /\ c_buf = <<>>
    /\ net = <<>>
    /\ c_raised # {}
    /\ c_clients # <<>>

\* The fields teardown_socket() is to clear are clear in the next state.
TornDown ==
    /\ ~c_socket'
    /\ ~c_connected'
    /\ c_buf' = <<>>
    /\ ~c_in_flight'

\* C20: teardown_socket() is idempotent.  Every call raises nothing and
\* leaves the socket absent, the connected flag false, the buffer empty and
\* the in-flight flag false; a call that follows another call, and a call on
\* a Client that never had a socket, leaves these fields as they were.
C20_TeardownIdempotent ==
    [][(c_pc = "idle" /\ c_op' = "teardown_socket")
           => (/\ TornDown
               /\ c_exc' = "none"
               /\ (c_op \in {"teardown_socket", "__init__"})
                      => UNCHANGED <<c_socket, c_connected, c_buf, c_in_flight>>)]_vars

\* C20 witness: teardown_socket() has been called twice in a row, after a
\* failed read had left bytes in the buffer of a live connection.
C20_Witness ==
    /\ c_op = "teardown_socket"
    /\ c_prev = "teardown_socket"
    /\ c_exc = "none"
    /\ ~c_socket
    /\ c_buf = <<>>
    /\ c_raised # {}

\* The capability acks, in the order of client.py:297-302, and the token
\* each answers.
AckTexts == <<"counters_json ok", "uname=Linux", "msg">>

AckTokens == <<T_counters_json, T_uname, T_msg>>

IsWrite(e, text) == e.op = "write" /\ e.text = text

\* In the log io, the events from the reply to extra_comms_begin (at index
\* i) to the write of extra_comms_end (at index j) are as claimed: between
\* them are writes only, all of them capability acks, in the order of
\* AckTexts, each at most once, and ack a is there iff the reply holds
\* its token.
AcksAsClaimed(io, i, j) ==
    /\ \A k \in (i + 1)..(j - 1) :
          /\ io[k].op = "write"
          /\ \E a \in 1..3 : io[k].text = AckTexts[a]
    /\ \A k1, k2 \in (i + 1)..(j - 1) :
          k1 < k2 => \E a1, a2 \in 1..3 :
                        /\ a1 < a2
                        /\ io[k1].text = AckTexts[a1]
                        /\ io[k2].text = AckTexts[a2]
    /\ \A a \in 1..3 :
          (\E k \in (i + 1)..(j - 1) : io[k].text = AckTexts[a])
              <=> Contains(io[i].data, AckTokens[a])

\* C18: in every connect() call, a capability ack is written only after an
\* accepted reply to extra_comms_begin; when extra_comms_end is written, the
\* acks written since that reply are those whose tokens the reply holds, in
\* the order counters_json ok, uname=Linux, msg, each once, with no read in
\* between.
C18_CapabilityAcks ==
    /\ \A k \in DOMAIN c_io :
          (c_io[k].op = "write" /\ \E a \in 1..3 : c_io[k].text = AckTexts[a])
              => \E i \in 2..(k - 1), j \in (k + 1)..Len(c_io) :
                    /\ IsWrite(c_io[i - 1], "extra_comms_begin")
                    /\ c_io[i].op = "read"
                    /\ IsWrite(c_io[j], "extra_comms_end")
    /\ \A j \in DOMAIN c_io :
          IsWrite(c_io[j], "extra_comms_end")
              => \E i \in 2..(j - 1) :
                    /\ IsWrite(c_io[i - 1], "extra_comms_begin")
                    /\ c_io[i].op = "read"
                    /\ Contains(c_io[i].data, T_extra_comms_begin_ok)
                    /\ AcksAsClaimed(c_io, i, j)

\* C18 witness: a handshake is complete in which the reply to
\* extra_comms_begin held the msg token alone and msg alone was
\* acknowledged.
C18_Witness ==
    /\ c_connected
    /\ c_pc = "idle"
    /\ \E i \in 1..(Len(c_io) - 2) :
          /\ c_io[i] = ReadEvent(R_ecb_msg)
          /\ IsWrite(c_io[i + 1], "msg")
          /\ IsWrite(c_io[i + 2], "extra_comms_end")

\* No capability ack is among the writes of the connect() call.
NoCapabilityAck ==
    \A k \in DOMAIN c_io :
        c_io[k].op = "write" => \A a \in 1..3 : c_io[k].text # AckTexts[a]

\* connect() has returned with the connection ready: the socket is there,
\* the connected flag is set, nothing was raised, the seven commands were
\* written and no capability ack was.
Ready ==
    /\ c_pc = "idle"
    /\ c_op = "connect"
    /\ c_exc = "none"
    /\ c_socket
    /\ c_connected
    /\ \A k \in 1..7 : \E i \in DOMAIN c_io : IsWrite(c_io[i], ClientHsCommand(k))
    /\ NoCapabilityAck

\* C17: against the scripted server, every connect() call that starts the
\* handshake comes to its end with the connection ready and no capability
\* ack sent, and no such call ends in any other way.
C17_ScriptedHandshake ==
    /\ (c_pc = "connect") ~> Ready
    /\ []((c_pc = "idle" /\ c_op = "connect" /\ c_io # <<>>) => Ready)

\* C17 witness: the handshake has ended ready after the server answered the
\* password with okpassword's text again and the two last reads with an
\* error text and with nothing.
C17_Witness ==
    /\ Ready
    /\ Len(c_io) = 15
    /\ c_io[6] = ReadEvent(R_okpassword)
    /\ c_io[14] = ReadEvent(R_error)
    /\ c_io[15] = ReadEvent(NoData)

\* The connection state write_command must leave alone.
ConnState ==
    <<c_socket, c_connected, c_buf, c_in_flight, c_ts_last_query,
      c_ts_last_connect_attempt>>

\* C21: write_command on a connection with no open socket raises
\* IOError('No socket'), hands nothing to a socket and leaves the connected
\* flag, the buffer, the in-flight flag and both timestamps as they were.
C21_NoSocketWrite ==
    [][(c_op' = "write_command" /\ c_now' = c_now /\ ~c_socket)
        => /\ c_exc' = "IOError: No socket"
           /\ c_sent' = c_sent
           /\ ConnState' = ConnState]_vars

\* C21 happens: write_command has raised on a connection torn down after
\* a request was sent on it.
C21_Witness ==
    /\ c_op = "write_command"
    /\ c_prev = "teardown_socket"
    /\ ~c_socket
    /\ c_exc = "IOError: No socket"
    /\ c_sent # <<>>
    /\ c_ts_last_query >= 0

\* The snapshot request as it goes to the socket.
SnapshotRequest == <<"c", "0", "0", "0", "3", "c", ":", NUL>>

\* C28: refresh() sends the snapshot request only on a connected
\* connection whose last request is more than the refresh interval old,
\* and sets the last-request timestamp to the current time then; when that
\* does not hold it sends nothing and changes no field.
C28_Refresh ==
    [][(c_op' = "refresh" /\ c_now' = c_now)
        => IF c_connected /\ c_now - c_ts_last_query > refresh_interval_seconds
           THEN /\ c_sent' = Append(c_sent, [t |-> c_now, text |-> SnapshotRequest])
                /\ c_ts_last_query' = c_now
           ELSE /\ c_sent' = c_sent
                /\ ConnState' = ConnState
                /\ UNCHANGED <<c_clients, c_parse_errors>>]_vars

\* C28 happens: a second request has gone out, and a refresh() made less
\* than a refresh interval after it has sent nothing.
C28_Witness ==
    /\ c_op = "refresh"
    /\ c_prev = "refresh"
    /\ c_connected
    /\ Len(c_sent) = 2
    /\ c_sent[2].text = SnapshotRequest
    /\ c_now > c_sent[2].t
    /\ c_ts_last_query = c_sent[2].t
\* C22: parse_message on a decoded message that has no clients key raises
\* Exception('Unknown data') (logged as 'Unknown message') and leaves the
\* client table and the parse-error counter as they were.
C22_UnknownMessage ==
    [][("clients" \notin DOMAIN last_message')
        => /\ apply_exc' = "Exception: Unknown data"
           /\ c_clients' = c_clients
           /\ c_parse_errors' = c_parse_errors]_vars

\* C22 happens: the message without clients was refused with a client in
\* the table and a parse error counted.
C22_Witness ==
    /\ last_message = O_other
    /\ apply_exc = "Exception: Unknown data"
    /\ c_clients # <<>>
    /\ c_parse_errors > 0

\* The places of the table that hold a record of this name.
Places(table, name) == {i \in DOMAIN table : table[i].name = name}

\* C23: a pass of parse_message over a valid entry puts into the table the
\* record made of that entry alone, in the place of the record of that
\* name when there is one (labels, run status, protocol and backups are
\* those of the entry) and at the end otherwise, and leaves every record
\* of another name as it was.
C23_ReplacedWholesale ==
    [][(/\ a_pc = "for"
        /\ a_idx' = a_idx + 1
        /\ ValidClient(a_msg.clients[a_idx]))
        => LET entry == a_msg.clients[a_idx]
               new == [name |-> entry.name,
                       labels |-> IF "labels" \in DOMAIN entry THEN <<entry.labels>> ELSE <<>>,
                       run_status |-> entry.run_status,
                       protocol |-> entry.protocol,
                       backups |-> [i \in DOMAIN entry.backups |->
                                       BackupInfo(entry.backups[i])]]
           IN  /\ \A i \in DOMAIN c_clients :
                      c_clients'[i] = (IF c_clients[i].name = entry.name THEN new
                                       ELSE c_clients[i])
               /\ IF Places(c_clients, entry.name) # {}
                  THEN Len(c_clients') = Len(c_clients)
                  ELSE c_clients' = Append(c_clients, new)]_vars

\* C23 happens: with asdf and a labelled, running burp in the table, the
\* passes over an unlabelled idle burp and over testclient are done.
C23_Witness ==
    /\ a_pc = "for"
    /\ a_idx = 3
    /\ a_before = <<ClientInfo(O_asdf), ClientInfo(O_burp_working)>>
    /\ a_msg = [clients |-> <<O_burp, O_testclient>>]
    /\ c_clients = <<ClientInfo(O_asdf), ClientInfo(O_burp), ClientInfo(O_testclient)>>
    /\ c_clients[2].labels = None

\* C24 (as claimed): in what collect() gives, a client's in-progress
\* indicator is 1 exactly when one of its backups carries the working
\* flag, whatever other flags that backup carries.
C24_InProgressIffWorking ==
    scraped.taken
        => \A i \in DOMAIN scraped.table :
               (scraped.families.clients[i].has_in_progress = 1)
                   <=> (\E k \in DOMAIN scraped.table[i].backups :
                           \E f \in DOMAIN scraped.table[i].backups[k].flags :
                               scraped.table[i].backups[k].flags[f] = "working")

\* The table parse_message(a_msg) leaves when it starts from a_before.
TableAfter ==
    IF "clients" \in DOMAIN a_msg
    THEN ClientParseMessage([clients |-> a_before, seen |-> {}, parse_errors |-> 0,
                             exc |-> "none"], a_msg).clients
    ELSE a_before

\* C26 (as claimed): a collect() made while parse_message applies a
\* snapshot sees the whole table as it was before the call or as it is
\* after it, never a table in between.
C26_ScrapeSeesWholeTable ==
    scraped.taken => scraped.table \in {a_before, TableAfter}
\* C27 (as claimed): any two successive connection attempts, the one cli()
\* makes before the loop included, are more than the cool-down apart.
C27_AttemptsSpaced ==
    \A i \in 2..Len(attempts) : attempts[i].t - attempts[i - 1].t > ConnectCoolDown

\* This step is a read() that takes bytes from the connection, reclen of
\* them.
ReadTakes == c_socket /\ net # <<>> /\ c_op' = "read" /\ net' # net

ReadLen == IF c_bufsize' < Len(Head(net)) THEN c_bufsize' ELSE Len(Head(net))

\* C29 (as claimed): a read(bufsize) that returns fewer than bufsize bytes
\* leaves the buffer empty and the in-flight flag false; one that returns
\* exactly bufsize bytes appends them to the buffer, decodes and dispatches
\* nothing and leaves the in-flight flag as it was.
C29_BoundaryRead ==
    [][ReadTakes
        => IF ReadLen < c_bufsize'
           THEN c_buf' = <<>> /\ ~c_in_flight'
           ELSE /\ c_buf' = c_buf \o SubSeq(Head(net), 1, ReadLen)
                /\ c_decoded' = c_decoded
                /\ c_dispatched' = c_dispatched
                /\ c_in_flight' = c_in_flight]_vars
\* C25 (as claimed): when the loop has exited on a shutdown request, the
\* stop flag found set at the head of the loop or a process interrupt
\* arriving inside it, the socket is closed and the connection is not
\* connected.
C25_ShutdownCloses ==
    (pc = "done" \/ raised = "KeyboardInterrupt")
        => (/\ pc \in {"done", "crashed"}
            /\ ~d_socket
            /\ ~d_connected)
\* C30 (as claimed): whatever the server does, the loop is at its stop-flag
\* check again and again until it exits.
C30_IterationTerminates == []<>(l_pc \in {"head", "exited"})
\* C37 (as claimed): a connection whose connected flag is true has a
\* socket.
C37_ConnectedHasSocket == c_connected => c_socket

\* The write of j:pretty-print-off as c_io records it.
PrettyPrintOffWritten == [op |-> "write", text |-> "j:pretty-print-off"]

\* C35: after j:pretty-print-off is written, a first read is made and
\* connect() goes on whatever it returned (a text or nothing); then a
\* second read is made and, whatever it returned, connect() returns with
\* the connected flag set: between the write and that, c_io holds these
\* two reads and nothing else.  (Reads that find the peer closed are C37.)
C35_TwoReadsDiscarded ==
    [][/\ (c_pc = "connect" /\ c_step = 7 /\ c_socket /\ c_socket' /\ c_step' # 7)
            => (/\ c_pc' = "connect"
                /\ c_step' = 8
                /\ c_exc' = "none"
                /\ ~c_connected'
                /\ Len(c_io') = Len(c_io) + 2
                /\ SubSeq(c_io', 1, Len(c_io) + 1) = Append(c_io, PrettyPrintOffWritten)
                /\ c_io'[Len(c_io')].op = "read")
       /\ (c_pc = "connect" /\ c_step = 8 /\ c_socket /\ c_socket' /\ c_step' # 8)
            => (/\ c_pc' = "idle"
                /\ c_exc' = "none"
                /\ c_connected'
                /\ Len(c_io') = Len(c_io) + 1
                /\ SubSeq(c_io', 1, Len(c_io)) = c_io
                /\ c_io'[Len(c_io')].op = "read"
                /\ c_io[Len(c_io)].op = "read"
                /\ c_io[Len(c_io) - 1] = PrettyPrintOffWritten)]_vars

\* C35 happens: connect() has returned with the connection ready after a
\* first read that timed out and a second that returned an error text.
C35_Witness ==
    /\ c_op = "connect"
    /\ c_pc = "idle"
    /\ c_connected
    /\ c_socket
    /\ Len(c_io) >= 3
    /\ c_io[Len(c_io) - 2] = PrettyPrintOffWritten
    /\ c_io[Len(c_io) - 1] = ReadEvent(NoData)
    /\ c_io[Len(c_io)] = ReadEvent(R_error)

\* The first read this step of connect() has made.
FirstReadOfStep ==
    LET new == SubSeq(c_io', Len(c_io) + 1, Len(c_io'))
        i == CHOOSE j \in DOMAIN new :
                 new[j].op = "read" /\ \A h \in 1..(j - 1) : new[h].op # "read"
    IN  new[i].data

\* C36 (as claimed): a warning frame read as the reply of one of the steps
\* 1 to 6 does not end the handshake; at the password step one more read
\* is made and the handshake goes on exactly when that read holds ok.
C36_WarningTolerated ==
    [][(/\ c_pc = "connect"
        /\ c_step \in 1..6
        /\ c_socket
        /\ Len(c_io') > Len(c_io)
        /\ FirstReadOfStep = R_warning)
        => IF c_step = 3
           THEN /\ c_io'[Len(c_io') - 1] = ReadEvent(R_warning)
                /\ c_io'[Len(c_io')].op = "read"
                /\ (c_pc' = "connect") <=> Contains(c_io'[Len(c_io')].data, T_ok)
                /\ (c_pc' # "connect") => c_exc' = "IOError"
           ELSE c_pc' = "connect"]_vars
\* C38: a teardown_socket() call, and any step that takes the socket away,
\* leaves the client table, the parse-error count and the two timestamps
\* as they were.
C38_TeardownKeepsTable ==
    [][((c_op' = "teardown_socket" /\ c_prev' = c_op) \/ (c_socket /\ ~c_socket'))
        => /\ c_clients' = c_clients
           /\ c_parse_errors' = c_parse_errors
           /\ c_ts_last_query' = c_ts_last_query
           /\ c_ts_last_connect_attempt' = c_ts_last_connect_attempt]_vars

\* C38 happens: teardown_socket() was called on a connection that had
\* read a snapshot, and the client of that snapshot is in the table while
\* there is no socket.
C38_Witness ==
    /\ c_op = "teardown_socket"
    /\ c_prev = "read"
    /\ ~c_socket
    /\ ~c_connected
    /\ c_clients = <<ClientInfo(O_asdf)>>
    /\ c_ts_last_connect_attempt = 0
\* C34: no step of the daemon (handshake, request, read, decode, apply,
\* teardown, reconnect) lowers the parse-error total, and after every step
\* that leaves the daemon running the client count gauge is the size of
\* the table.
C34_TotalsKept ==
    [][/\ PARSE_ERRORS' >= PARSE_ERRORS
       /\ (pc' # "crashed") => (CLIENT_COUNT' = Cardinality(d_clients'))]_vars

\* C34 happens: a snapshot with an invalid entry was applied, the
\* connection was lost after it and set up again, and the error is still
\* counted and the client still in the table.
C34_Witness ==
    /\ pc = "loop"
    /\ PARSE_ERRORS = 1
    /\ CLIENT_COUNT = 1
    /\ d_clients = {"asdf"}
    /\ d_connected
    /\ Len(attempts) >= 2
\* C31: when a parse_message call removes a client from the table, none of
\* the per-client metrics keeps a child for its name afterwards: backup
\* number, backup timestamp, in-progress indicator and run status.
C31_RemovedLeavesNothing ==
    [][\A name \in p_clients \ p_clients' :
          /\ name \notin DOMAIN CLIENT_BACKUP_NUM'
          /\ name \notin DOMAIN CLIENT_BACKUP_TIMESTAMP'
          /\ name \notin DOMAIN CLIENT_BACKUP_HAS_IN_PROGRESS'
          /\ name \notin DOMAIN CLIENT_RUN_STATUS']_vars
\* C32: after parse_message returned from a snapshot, a valid entry of it
\* whose backups list is empty has its name in the table, no current backup
\* number, no current backup timestamp, and an in-progress indicator that
\* is not set, whatever the snapshots before gave that name.
C32_EmptyBackupsNoCurrent ==
    [][("clients" \in DOMAIN last_message' /\ apply_exc' = "none") =>
          \A i \in ValidIndexes(last_message') :
              LET entry == last_message'.clients[i]
              IN  (/\ entry.backups = <<>>
                   /\ \A j \in ValidIndexes(last_message') :
                          last_message'.clients[j].name = entry.name => j = i)
                    => /\ entry.name \in p_clients'
                       /\ entry.name \notin DOMAIN CLIENT_BACKUP_NUM'
                       /\ entry.name \notin DOMAIN CLIENT_BACKUP_TIMESTAMP'
                       /\ (entry.name \in DOMAIN CLIENT_BACKUP_HAS_IN_PROGRESS'
                             => ~CLIENT_BACKUP_HAS_IN_PROGRESS'[entry.name])]_vars
\* C33: a scrape of a table in which a client has more than one backup
\* flagged current exports one backup number and one backup timestamp for
\* that client, those of the last such backup of its backups array.
C33_LastCurrentExported ==
    scraped.taken =>
        \A i \in DOMAIN scraped.table :
            LET Current(b) == InList("current", b.flags)
                cur == SelectSeq(scraped.table[i].backups, Current)
                samples == scraped.families.clients[i]
            IN  Len(cur) > 1
                    => /\ samples.backup_num = <<cur[Len(cur)].number>>
                       /\ samples.backup_timestamp = <<cur[Len(cur)].timestamp>>
====
